---- MODULE Spec2Model ----
(***************************************************************************)
(* A model of the AiSMS backend core: the capture-worker supervisor        *)
(* (services/process_manager.py, services/capture_worker.py), the event    *)
(* ingestion pipeline (api/ingest.py, the on_event callback of the         *)
(* supervisor) and the room fan-out (api/ws.py, services/publisher.py).    *)
(*                                                                         *)
(* The specifications share the variables:                                 *)
(*   Spec          the worker supervisor, its child processes and threads  *)
(*   SpecReader    one worker whose output holds undecodable lines         *)
(*   SpecCallbacks the supervisor with the done-callbacks of the loop      *)
(*   SpecStatus    the supervisor with get_status read in steps            *)
(*   SpecShutdown  the supervisor with stop_all at shutdown                *)
(*   SpecIngest    the ingestion pipeline (worker callbacks, /ingest)      *)
(*   SpecValidate  one event through validation and insert_event           *)
(*   SpecWs        the websocket rooms, forwarding tasks and the relay     *)
(*   SpecWsFair    the same, with the fairness of the event loop           *)
(*   SpecRooms     the websocket rooms with MaxRoomMsgs messages           *)
(*   SpecEngine    the metrics engine of the capture process               *)
(*   SpecCapture   the capture sessions of api/capture.py over the         *)
(*                 supervisor                                              *)
(* Each leaves the variables of the other parts at their initial values.   *)
(***************************************************************************)
EXTENDS Integers, Sequences, FiniteSets, TLC

VARIABLES
    workers,    \* ProcessManager.workers: device -> index into obj (0: no entry)
    obj,        \* the CaptureWorker objects started so far
    proc,       \* the child process of each worker (subprocess.Popen)
    thr,        \* the two reader threads of each worker
    stopping,   \* position of the blocking CaptureWorker.stop() on the loop thread
    last,       \* history: the last lifecycle call and its result
    cnt,        \* history: lines written so far, whether a stop was ever called
    lim,        \* the limits of the behaviour (fixed by the initial state)
    fut,        \* per worker: callbacks scheduled and not completed, and history
    loopj,      \* the synchronous function the loop thread is inside (besides stop)
    \* ---- ingestion pipeline ----
    handed,     \* events the stdout reader has handed to the loop so far
    ready,      \* the loop's queue of on_event callbacks not yet started (FIFO)
    cb,         \* on_event coroutines in flight: event -> where it is suspended
    req,        \* the /ingest request being served
    store,      \* the events table: events in the order their insert completed
    relay,      \* messages published to the relay, in the order publish completed
    fallback,   \* the fallback JSONL file
    ih,         \* history: events whose persistence / fallback write failed
    vd,         \* one event on its way through validation and insert_event
    \* ---- websocket rooms ----
    active,     \* ConnectionManager.active_connections: room -> set of handles
    conn,       \* the websocket_live handler of each handle, and its client
                \* (history: since, the messages published before it connected)
    fwd,        \* the subscribe_and_forward task each handler created
    recv,       \* what each client received, in order
    pubs,       \* the room of each message published to the relay so far
    lastBc,     \* history: the last broadcast_to_room that ended
    \* ---- metrics engine of the capture process ----
    metrics_engine, \* the MetricsEngine object: buf, long_buf, center_vel,
                    \* prev_center, eng_ema
    metrics,        \* what the last compute() returned
    mh,             \* the plan of the behaviour and history: pushes, computes so
                    \* far, the last operation
    \* ---- capture sessions ----
    sessions,   \* the capture_sessions table: row id -> device and status
    api         \* the handlers of /capture/sessions suspended at an await of the
                \* database, and the number of create requests started

workerVars == <<workers, obj, proc, thr, stopping, last, cnt, lim, fut, loopj>>
ingestVars == <<handed, ready, cb, req, store, relay, fallback, ih, vd>>
wsVars == <<active, conn, fwd, recv, pubs, lastBc>>
engineVars == <<metrics_engine, metrics, mh>>
captureVars == <<sessions, api>>
vars == <<workers, obj, proc, thr, stopping, last, cnt, lim, fut, loopj,
          handed, ready, cb, req, store, relay, fallback, ih, vd,
          active, conn, fwd, recv, pubs, lastBc,
          metrics_engine, metrics, mh, sessions, api>>

\* What the steps of one component leave alone.
WorkerOnly == UNCHANGED <<ingestVars, wsVars, engineVars, captureVars>>
IngestOnly == UNCHANGED <<workerVars, wsVars, engineVars, captureVars>>
WsOnly == UNCHANGED <<workerVars, ingestVars, engineVars, captureVars>>
EngineOnly == UNCHANGED <<workerVars, ingestVars, wsVars, captureVars>>
CaptureOnly == UNCHANGED <<ingestVars, wsVars, engineVars>>

(***************************************************************************)
(* Bounds of the model                                                     *)
(***************************************************************************)
MaxSpawns == 2      \* capture processes launched in one behaviour of Spec
MaxLines == 3       \* lines one capture process writes in a behaviour of SpecReader
MaxEvents == 2      \* events one capture worker hands over in SpecIngest
MaxBatch == 2       \* events of the /ingest request in SpecIngest
MaxMsgs == 2        \* messages published to the relay in SpecWs
MaxRoomMsgs == 1    \* messages published to the relay in SpecRooms
MaxPushes == 2      \* samples of any kind pushed to the metrics engine
MaxComputes == 3    \* calls of compute() among samples of any kind
MaxOver == 2        \* samples pushed beyond the capacity of the long window
MaxFrames == 5      \* frames of the main loop with a steady face
MaxSessions == 2    \* create requests for capture sessions in SpecCapture

Devices == {"cam1", "cam2"}

\* What one line of the child's standard output can be, as _read_stdout sees it:
\*   json        a JSON object                 -> handed to the callback
\*   blank       empty after strip()           -> skipped
\*   text        not JSON (JSONDecodeError)    -> logged at debug level
\*   nonobject   JSON, but no object: setdefault raises -> error_count += 1
\*   undecodable bytes the text-mode pipe cannot decode: the iterator itself
\*               raises, outside the inner try
LineKinds == {"json", "blank", "text", "nonobject", "undecodable"}

(***************************************************************************)
(* Worker supervisor                                                       *)
(***************************************************************************)
Idle == [pc |-> "idle", dev |-> "none", w |-> 0]

NoCall == [op |-> "none", dev |-> "none", phase |-> "returned", value |-> FALSE,
           w |-> 0, runningAtCall |-> FALSE, aliveAtCall |-> FALSE]

\* val: what the function has read so far; seen (history): the states the worker
\* went through during a get_status.
LoopIdle == [pc |-> "idle", w |-> 0, val |-> <<>>, seen |-> {}]

\* capture_worker.py:188-190: the fields of a worker that other threads write,
\* in the order get_status reads them
Snapshot(w) == <<w.is_running, w.events_count, w.error_count>>

\* History: the reader thread wrote worker i while a get_status of it is under way.
Observe(lj, i, w) ==
    IF lj.pc = "status" /\ lj.w = i
    THEN [lj EXCEPT !.seen = @ \cup {Snapshot(w)}] ELSE lj

\* The event loop's thread is free to start a request handler or a callback: it
\* is neither blocked in stop() nor inside another synchronous function.
LoopFree == stopping.pc = "idle" /\ loopj.pc = "idle"

\* capture_worker.py:131-134: no future scheduled yet.  raised and reader_errors
\* are history: callbacks that raised, errors the reader counted (line 140).
NoFutures == [pending |-> 0, raised |-> 0, reader_errors |-> 0]

\* lm: [spawns: processes launched, lines: lines written, kinds: their kinds]
InitWorker(lm) ==
    /\ lim = lm
    /\ workers = [d \in Devices |-> 0]
    /\ obj = <<>>
    /\ proc = <<>>
    /\ thr = <<>>
    /\ stopping = Idle
    /\ last = NoCall
    /\ cnt = [lines |-> 0, anyStop |-> FALSE]
    /\ fut = <<>>
    /\ loopj = LoopIdle

WorkerIds == 1..Len(obj)

\* ProcessManager.get_status / CaptureWorker.get_status: the running flag a
\* status snapshot of the device reports (no entry: "No active capture").
StatusRunning(d) == workers[d] # 0 /\ obj[workers[d]].is_running

\* The processes of a device that are alive, and its workers that report running.
LiveProcesses(d) == {i \in 1..Len(obj) : obj[i].device_id = d /\ proc[i].alive}
RunningWorkers(d) == {i \in 1..Len(obj) : obj[i].device_id = d /\ obj[i].is_running}

\* A start_capture whose check is inverted.
AlreadyRunningInverted(d) == workers[d] # 0 /\ ~obj[workers[d]].is_running

\* process_manager.py:26  device_id in self.workers and self.workers[device_id].is_running
AlreadyRunning(d) == workers[d] # 0 /\ obj[workers[d]].is_running

\* capture_worker.py:94-98: the fields start() sets once Popen returned
NewWorker(d, sid) ==
    [device_id |-> d, session_id |-> sid, is_running |-> TRUE,
     events_count |-> 0, error_count |-> 0]

\* capture_worker.py:81-89: the launched child, both pipes open
NewProcess ==
    [alive |-> TRUE, out_open |-> TRUE, stdout |-> <<>>, json_emitted |-> 0]

\* capture_worker.py:100-108: both reader threads started
NewThreads == [stdout |-> "running", stderr |-> "running"]

ProcAliveOf(d) == workers[d] # 0 /\ proc[workers[d]].alive

\* ProcessManager.start_capture: no await between the check and the registration,
\* so the whole call is one step of the event loop.  spawnOk: whether Popen
\* succeeded (capture_worker.py:80-92).
StartCaptureCall(d, session_id, spawnOk) ==
    LET refused == AlreadyRunning(d)
        spawn == ~refused /\ spawnOk
    IN /\ spawn => Len(obj) < lim.spawns
       /\ IF spawn
          THEN /\ obj' = Append(obj, NewWorker(d, session_id))
               /\ proc' = Append(proc, NewProcess)
               /\ thr' = Append(thr, NewThreads)
               /\ workers' = [workers EXCEPT ![d] = Len(obj) + 1]
               /\ fut' = Append(fut, NoFutures)
          ELSE UNCHANGED <<obj, proc, thr, workers, fut>>
       /\ last' = [op |-> "start", dev |-> d, phase |-> "returned",
                   value |-> spawn, w |-> IF spawn THEN Len(obj) + 1 ELSE 0,
                   runningAtCall |-> refused, aliveAtCall |-> ProcAliveOf(d)]

StartCapture(d, spawnOk) ==
    /\ WorkerOnly
    /\ LoopFree
    /\ StartCaptureCall(d, Len(obj) + 1, spawnOk)
    /\ UNCHANGED <<stopping, cnt, lim, loopj>>

\* ---- the child process (the environment of the supervisor) ----

\* The child writes one line to its standard output.  The pipe holds one unread
\* line: the child blocks in its write until the reader has taken the line before.
ProcEmit(i, kind) ==
    /\ WorkerOnly
    /\ proc[i].alive /\ proc[i].out_open
    /\ proc[i].stdout = <<>>
    /\ cnt.lines < lim.lines
    /\ kind \in lim.kinds
    /\ proc' = [proc EXCEPT ![i].stdout = Append(@, kind),
                            ![i].json_emitted = @ + (IF kind = "json" THEN 1 ELSE 0)]
    /\ cnt' = [cnt EXCEPT !.lines = @ + 1]
    /\ UNCHANGED <<workers, obj, thr, stopping, last, lim, fut, loopj>>

\* The child exits (normally, by a crash or by a signal): the OS closes its pipes.
\* Its standard error stays open as long as it lives.
ProcExit(i) ==
    /\ WorkerOnly
    /\ proc[i].alive
    /\ proc' = [proc EXCEPT ![i].alive = FALSE, ![i].out_open = FALSE]
    /\ UNCHANGED <<workers, obj, thr, stopping, last, cnt, lim, fut, loopj>>

\* The child closes its standard output and keeps running.
ProcCloseStdout(i) ==
    /\ WorkerOnly
    /\ proc[i].alive /\ proc[i].out_open
    /\ proc' = [proc EXCEPT ![i].out_open = FALSE]
    /\ UNCHANGED <<workers, obj, thr, stopping, last, cnt, lim, fut, loopj>>

\* ---- CaptureWorker._read_stdout, one iteration of its for loop ----

\* capture_worker.py:125-140: what the loop body does with a decoded line
HandleLine(w, kind) ==
    CASE kind = "json" -> [w EXCEPT !.events_count = @ + 1]
      [] kind = "nonobject" -> [w EXCEPT !.error_count = @ + 1]
      [] OTHER -> w

\* capture_worker.py:131-134, 140: a future is scheduled for a JSON object; the
\* reader counts an error for JSON that is no object.
AfterLine(f, kind) ==
    CASE kind = "json" -> [f EXCEPT !.pending = @ + 1]
      [] kind = "nonobject" -> [f EXCEPT !.reader_errors = @ + 1]
      [] OTHER -> f

\* capture_worker.py:141-142: the finally clause
ReaderExit(w) == [w EXCEPT !.is_running = FALSE]

ReadStdout(i) ==
    /\ WorkerOnly
    /\ thr[i].stdout = "running"
    /\ IF proc[i].stdout # <<>>
       THEN LET kind == Head(proc[i].stdout)
            IN /\ proc' = [proc EXCEPT ![i].stdout = Tail(@)]
               /\ IF kind = "undecodable"
                  THEN \* the iterator raises: the finally clause runs, the thread dies
                       /\ obj' = [obj EXCEPT ![i] = ReaderExit(@)]
                       /\ thr' = [thr EXCEPT ![i].stdout = "done"]
                       /\ UNCHANGED fut
                  ELSE /\ obj' = [obj EXCEPT ![i] = HandleLine(@, kind)]
                       /\ fut' = [fut EXCEPT ![i] = AfterLine(@, kind)]
                       /\ UNCHANGED thr
       ELSE \* end of stream once the write end is closed; blocked otherwise
            /\ ~proc[i].out_open
            /\ obj' = [obj EXCEPT ![i] = ReaderExit(@)]
            /\ thr' = [thr EXCEPT ![i].stdout = "done"]
            /\ UNCHANGED <<proc, fut>>
    /\ loopj' = Observe(loopj, i, obj'[i])
    /\ UNCHANGED <<workers, stopping, last, cnt, lim>>

\* CaptureWorker._read_stderr: logging only; it ends at end of stream.
ReadStderr(i) ==
    /\ WorkerOnly
    /\ thr[i].stderr = "running"
    /\ ~proc[i].alive
    /\ thr' = [thr EXCEPT ![i].stderr = "done"]
    /\ UNCHANGED <<workers, obj, proc, stopping, last, cnt, lim, fut, loopj>>

\* ---- ProcessManager.stop_capture and CaptureWorker.stop ----

\* A stop_capture that removes the entry whatever stop() returned.
PopAlways(d, success) == [workers EXCEPT ![d] = 0]

\* process_manager.py:62-63: the entry is removed only when stop() succeeded
PopOnSuccess(d, success) == IF success THEN [workers EXCEPT ![d] = 0] ELSE workers

StopReturn(d, w, value, calledNow) ==
    /\ last' = IF calledNow
               THEN [op |-> "stop", dev |-> d, phase |-> "returned", value |-> value,
                     w |-> w, runningAtCall |-> AlreadyRunning(d),
                     aliveAtCall |-> ProcAliveOf(d)]
               ELSE [last EXCEPT !.phase = "returned", !.value = value]
    /\ workers' = PopOnSuccess(d, value)
    /\ stopping' = Idle

\* stop_capture up to the first blocking call of stop(): process_manager.py:58-60
\* and capture_worker.py:161-162.
StopCaptureCall(d) ==
    /\ cnt' = [cnt EXCEPT !.anyStop = TRUE]
    /\ IF workers[d] = 0 \/ ~obj[workers[d]].is_running
       THEN StopReturn(d, workers[d], FALSE, TRUE)
       ELSE /\ stopping' = [pc |-> "terminate", dev |-> d, w |-> workers[d]]
            /\ last' = [op |-> "stop", dev |-> d, phase |-> "called", value |-> FALSE,
                        w |-> workers[d], runningAtCall |-> TRUE,
                        aliveAtCall |-> ProcAliveOf(d)]
            /\ UNCHANGED workers

StopCapture(d) ==
    /\ WorkerOnly
    /\ LoopFree
    /\ StopCaptureCall(d)
    /\ UNCHANGED <<obj, proc, thr, lim, fut, loopj>>

\* capture_worker.py:164: process.terminate(); raises: 170-174
StopTerminate(raises) ==
    /\ WorkerOnly
    /\ stopping.pc = "terminate"
    /\ IF raises
       THEN /\ obj' = [obj EXCEPT ![stopping.w].is_running = FALSE]
            /\ StopReturn(stopping.dev, stopping.w, FALSE, FALSE)
       ELSE /\ stopping' = [stopping EXCEPT !.pc = "wait"]
            /\ UNCHANGED <<obj, last, workers>>
    /\ UNCHANGED <<proc, thr, cnt, lim, fut, loopj>>

\* capture_worker.py:165: process.wait(timeout=5) returns once the child is gone
StopWaitExited ==
    /\ WorkerOnly
    /\ stopping.pc = "wait"
    /\ ~proc[stopping.w].alive
    /\ obj' = [obj EXCEPT ![stopping.w].is_running = FALSE]
    /\ stopping' = [stopping EXCEPT !.pc = "join_stdout"]
    /\ UNCHANGED <<workers, proc, thr, last, cnt, lim, fut, loopj>>

\* A stop that force-kills after the wait whether or not the child has exited.
StopWaitThenKill ==
    /\ WorkerOnly
    /\ stopping.pc = "wait"
    /\ stopping' = [stopping EXCEPT !.pc = "kill"]
    /\ UNCHANGED <<workers, obj, proc, thr, last, cnt, lim, fut, loopj>>

\* capture_worker.py:166-167: TimeoutExpired while the child is still alive
StopWaitTimeout ==
    /\ WorkerOnly
    /\ stopping.pc = "wait"
    /\ proc[stopping.w].alive
    /\ stopping' = [stopping EXCEPT !.pc = "kill"]
    /\ UNCHANGED <<workers, obj, proc, thr, last, cnt, lim, fut, loopj>>

\* capture_worker.py:168-169, 174: kill(), wait() without timeout, finally
StopKill ==
    /\ WorkerOnly
    /\ stopping.pc = "kill"
    /\ proc' = [proc EXCEPT ![stopping.w].alive = FALSE,
                            ![stopping.w].out_open = FALSE]
    /\ obj' = [obj EXCEPT ![stopping.w].is_running = FALSE]
    /\ stopping' = [stopping EXCEPT !.pc = "join_stdout"]
    /\ UNCHANGED <<workers, thr, last, cnt, lim, fut, loopj>>

\* capture_worker.py:176-177: stdout_thread.join(timeout=2) returns, joined or not
StopJoinStdout ==
    /\ WorkerOnly
    /\ stopping.pc = "join_stdout"
    /\ stopping' = [stopping EXCEPT !.pc = "join_stderr"]
    /\ UNCHANGED <<workers, obj, proc, thr, last, cnt, lim, fut, loopj>>

\* capture_worker.py:178-182 and process_manager.py:62-64
StopJoinStderr ==
    /\ WorkerOnly
    /\ stopping.pc = "join_stderr"
    /\ StopReturn(stopping.dev, stopping.w, TRUE, FALSE)
    /\ UNCHANGED <<obj, proc, thr, cnt, lim, fut, loopj>>

\* ---- ProcessManager.stop_all, called by the shutdown of the application ----

\* The devices of the registry in some order, without repetition.
KeyLists ==
    LET ks == {d \in Devices : workers[d] # 0}
    IN {sq \in UNION {[1..n -> ks] : n \in {Cardinality(ks)}} :
            \A a, b \in 1..Len(sq) : sq[a] = sq[b] => a = b}

\* process_manager.py:76: list(self.workers.keys())
StopAllBegin ==
    /\ WorkerOnly
    /\ LoopFree
    /\ \E keys \in KeyLists :
          loopj' = [pc |-> "stop_all", w |-> 0, val |-> keys, seen |-> {}]
    /\ UNCHANGED <<workers, obj, proc, thr, stopping, last, cnt, lim, fut>>

\* process_manager.py:77-80: stop_capture of the next device; stop() blocks
\* the loop thread as in StopCapture
StopAllNext ==
    /\ WorkerOnly
    /\ loopj.pc = "stop_all" /\ stopping.pc = "idle"
    /\ loopj.val # <<>>
    /\ StopCaptureCall(Head(loopj.val))
    /\ loopj' = [loopj EXCEPT !.val = Tail(@)]
    /\ UNCHANGED <<obj, proc, thr, lim, fut>>

\* stop_all returns (main.py:32)
StopAllEnd ==
    /\ WorkerOnly
    /\ loopj.pc = "stop_all" /\ stopping.pc = "idle"
    /\ loopj.val = <<>>
    /\ loopj' = LoopIdle
    /\ last' = [NoCall EXCEPT !.op = "stop_all"]
    /\ UNCHANGED <<workers, obj, proc, thr, stopping, cnt, lim, fut>>

\* ---- completion of a scheduled callback, on the loop thread ----

\* The task of one on_event call of worker i ends and the done callback
\* _handle_future_result runs (capture_worker.py:145-150).  When the callback
\* raised, future.result() raises and "self.error_count += 1" is executed: a read
\* of the attribute here, the write in HfrStore.  The reader thread executes its
\* own "self.error_count += 1" (line 140) with no lock shared with this one.
CallbackDone(i, raises) ==
    /\ WorkerOnly
    /\ LoopFree
    /\ fut[i].pending > 0
    /\ fut' = [fut EXCEPT ![i].pending = @ - 1,
                          ![i].raised = @ + (IF raises THEN 1 ELSE 0)]
    /\ loopj' = IF raises
                THEN [pc |-> "hfr", w |-> i, val |-> <<obj[i].error_count>>, seen |-> {}]
                ELSE loopj
    /\ UNCHANGED <<workers, obj, proc, thr, stopping, last, cnt, lim>>

\* capture_worker.py:150: the write of error_count that ends the increment
HfrStore ==
    /\ WorkerOnly
    /\ loopj.pc = "hfr"
    /\ obj' = [obj EXCEPT ![loopj.w].error_count = loopj.val[1] + 1]
    /\ loopj' = LoopIdle
    /\ UNCHANGED <<workers, proc, thr, stopping, last, cnt, lim, fut>>

\* ---- ProcessManager.get_status / CaptureWorker.get_status, on the loop thread ----

\* process_manager.py:66-70 and capture_worker.py:185-188: the worker is looked
\* up and is_running is read
StatusBegin(d) ==
    /\ WorkerOnly
    /\ LoopFree
    /\ workers[d] # 0
    /\ loopj' = [pc |-> "status", w |-> workers[d],
                 val |-> <<obj[workers[d]].is_running>>,
                 seen |-> {Snapshot(obj[workers[d]])}]
    /\ UNCHANGED <<workers, obj, proc, thr, stopping, last, cnt, lim, fut>>

\* capture_worker.py:189: events_count is read
StatusReadEvents ==
    /\ WorkerOnly
    /\ loopj.pc = "status" /\ Len(loopj.val) = 1
    /\ loopj' = [loopj EXCEPT !.val = Append(@, obj[loopj.w].events_count)]
    /\ UNCHANGED <<workers, obj, proc, thr, stopping, last, cnt, lim, fut>>

\* capture_worker.py:190-194: error_count is read and the snapshot returned (it
\* stays in loopj.val as history)
StatusReadErrors ==
    /\ WorkerOnly
    /\ loopj.pc = "status" /\ Len(loopj.val) = 2
    /\ loopj' = [loopj EXCEPT !.pc = "idle",
                              !.val = Append(@, obj[loopj.w].error_count)]
    /\ UNCHANGED <<workers, obj, proc, thr, stopping, last, cnt, lim, fut>>

NextWorker ==
    \/ \E d \in Devices, ok \in BOOLEAN : StartCapture(d, ok)
    \/ \E d \in Devices : StopCapture(d)
    \/ \E r \in BOOLEAN : StopTerminate(r)
    \/ StopWaitExited
    \/ StopWaitTimeout
    \/ StopKill
    \/ StopJoinStdout
    \/ StopJoinStderr
    \/ \E i \in WorkerIds, k \in LineKinds : ProcEmit(i, k)
    \/ \E i \in WorkerIds : ProcExit(i)
    \/ \E i \in WorkerIds : ProcCloseStdout(i)
    \/ \E i \in WorkerIds : ReadStdout(i)
    \/ \E i \in WorkerIds : ReadStderr(i)

(***************************************************************************)
(* Ingestion pipeline                                                      *)
(*                                                                         *)
(* Events 1..MaxEvents are the JSON objects one capture worker reads, in   *)
(* this order, from its child; events MaxEvents+1.. are those of the body  *)
(* of one /ingest request.  The database (db.execute) and the relay        *)
(* (redis.publish) are awaited: a coroutine is suspended there until the   *)
(* collaborator answers, with success or with an exception.                *)
(***************************************************************************)
WorkerEvents == 1..MaxEvents
BatchEvents == (MaxEvents + 1)..(MaxEvents + MaxBatch)
Device == "cam1"

NoRequest == [pc |-> "none", n |-> 0, i |-> 0, inserted |-> 0, failed |-> 0,
              key |-> "none"]

\* config.py:13: the configured ingest key, and the X-API-KEY headers of the
\* requests ("none": the header is missing, Header(None))
INGEST_API_KEY == "dev-ingest-key"
ApiKeys == {"dev-ingest-key", "wrong-key", "none"}

\* No event is being validated.
NoEvent == [pc |-> "none", path |-> "none", payload |-> [f \in {} |-> "absent"],
            tsform |-> "none", db |-> "none", ts |-> "none"]

InitQueues ==
    /\ handed = 0
    /\ ready = <<>>
    /\ cb = [e \in {} |-> "none"]
    /\ req = NoRequest
    /\ store = <<>>
    /\ relay = <<>>
    /\ fallback = <<>>
    /\ ih = [persistFailed |-> {}, fallbackFailed |-> {}]

InitIngest == InitQueues /\ vd = NoEvent

\* A reader that waits for the callbacks it scheduled (future.result()) before
\* it reads the next line.
HandOverWaits ==
    /\ IngestOnly
    /\ handed < MaxEvents
    /\ ready = <<>> /\ \A e \in DOMAIN cb : cb[e] = "done"
    /\ handed' = handed + 1
    /\ ready' = Append(ready, handed + 1)
    /\ UNCHANGED <<cb, req, store, relay, fallback, ih, vd>>

\* capture_worker.py:129-135: the reader hands the next event to the loop
\* (run_coroutine_threadsafe) and goes on reading.
HandOver ==
    /\ IngestOnly
    /\ handed < MaxEvents
    /\ handed' = handed + 1
    /\ ready' = Append(ready, handed + 1)
    /\ UNCHANGED <<cb, req, store, relay, fallback, ih, vd>>

\* process_manager.py:32-41: the loop starts the oldest scheduled callback; it
\* runs up to the await of db.execute in insert_event (ingest.py:39), or returns
\* at once when EventData(**payload) raises.
OnEventStart(valid) ==
    /\ IngestOnly
    /\ ready # <<>>
    /\ ready' = Tail(ready)
    /\ cb' = IF valid THEN (Head(ready) :> "inserting") @@ cb ELSE cb
    /\ UNCHANGED <<handed, req, store, relay, fallback, ih, vd>>

\* process_manager.py:45-46: the worker path only logs a failed insert
WorkerInsertFailed(e) == fallback

\* An on_event that publishes the event whether or not the insert succeeded.
PublishUnconditionally(e, ok) ==
    /\ IngestOnly
    /\ e \in DOMAIN cb /\ cb[e] = "inserting"
    /\ cb' = [cb EXCEPT ![e] = "publishing"]
    /\ IF ok
       THEN /\ store' = Append(store, e)
            /\ UNCHANGED <<fallback, ih>>
       ELSE /\ fallback' = WorkerInsertFailed(e)
            /\ ih' = [ih EXCEPT !.persistFailed = @ \cup {e}]
            /\ UNCHANGED store
    /\ UNCHANGED <<handed, ready, req, relay, vd>>

\* ingest.py:26-62 as awaited by on_event (process_manager.py:42-48): db.execute
\* answers for event e; on success publish_event is entered up to its await.
OnEventInserted(e, ok) ==
    /\ IngestOnly
    /\ e \in DOMAIN cb /\ cb[e] = "inserting"
    /\ IF ok
       THEN /\ store' = Append(store, e)
            /\ cb' = [cb EXCEPT ![e] = "publishing"]
            /\ UNCHANGED <<fallback, ih>>
       ELSE /\ cb' = [cb EXCEPT ![e] = "done"]
            /\ fallback' = WorkerInsertFailed(e)
            /\ ih' = [ih EXCEPT !.persistFailed = @ \cup {e}]
            /\ UNCHANGED store
    /\ UNCHANGED <<handed, ready, req, relay, vd>>

\* publisher.py:22-37: redis.publish answers; an exception is logged and swallowed
Published(e, ok) == IF ok THEN Append(relay, [room |-> Device, event |-> e]) ELSE relay

OnEventPublished(e, ok) ==
    /\ IngestOnly
    /\ e \in DOMAIN cb /\ cb[e] = "publishing"
    /\ relay' = Published(e, ok)
    /\ cb' = [cb EXCEPT ![e] = "done"]
    /\ UNCHANGED <<handed, ready, req, store, fallback, ih, vd>>

\* ---- the /ingest endpoint (ingest.py:74-146), one request with n events ----

CurrentEvent == MaxEvents + req.i

\* ingest.py:64-72: the event is appended to the file, unless the write raises
WriteToFallback(e, fbOk) == IF fbOk THEN Append(fallback, e) ELSE fallback

\* A check that lets a request without the header pass.
VerifyApiKeyIfPresent(x_api_key) == x_api_key \in {INGEST_API_KEY, "none"}

\* ingest.py:16-24: verify_api_key raises 401 unless the header is the key
VerifyApiKey(x_api_key) == x_api_key = INGEST_API_KEY

\* ingest.py:74-125: the dependency verify_api_key runs before the handler;
\* then the body is read and the first insert is awaited
IngestStart(n, x_api_key) ==
    /\ IngestOnly
    /\ req.pc = "none"
    /\ req' = [pc |-> IF VerifyApiKey(x_api_key) THEN "inserting" ELSE "unauthorized",
               n |-> n, i |-> 1, inserted |-> 0, failed |-> 0, key |-> x_api_key]
    /\ UNCHANGED <<handed, ready, cb, store, relay, fallback, ih, vd>>

\* ingest.py:142-146, models.py:51-54: the response of a request that was
\* served to its end; message is None (<<>>) when no insert failed, and
\* otherwise the text that carries the failed count
IngestResponse(r) ==
    [status |-> "ok", inserted |-> r.inserted,
     message |-> IF r.failed > 0 THEN <<r.failed>> ELSE <<>>]

\* The loop of ingest.py:123-138 moves to the next event or to the response.
NextOfBatch(r) ==
    IF r.i < r.n THEN [r EXCEPT !.pc = "inserting", !.i = @ + 1]
                 ELSE [r EXCEPT !.pc = "answered"]

\* ingest.py:125-138: insert_event returned for the current event
IngestInserted(ok, fbOk) ==
    /\ IngestOnly
    /\ req.pc = "inserting"
    /\ IF ok
       THEN /\ store' = Append(store, CurrentEvent)
            /\ req' = [req EXCEPT !.pc = "publishing", !.inserted = @ + 1]
            /\ UNCHANGED <<fallback, ih>>
       ELSE /\ fallback' = WriteToFallback(CurrentEvent, fbOk)
            /\ ih' = [persistFailed |-> ih.persistFailed \cup {CurrentEvent},
                      fallbackFailed |-> ih.fallbackFailed
                                          \cup (IF fbOk THEN {} ELSE {CurrentEvent})]
            /\ req' = NextOfBatch([req EXCEPT !.failed = @ + 1])
            /\ UNCHANGED store
    /\ UNCHANGED <<handed, ready, cb, relay, vd>>

\* An /ingest that lets the error of a failed publish end the request.
PublishErrorEndsRequest(ok) ==
    /\ IngestOnly
    /\ req.pc = "publishing"
    /\ relay' = Published(CurrentEvent, ok)
    /\ req' = IF ok THEN NextOfBatch(req) ELSE [req EXCEPT !.pc = "error"]
    /\ UNCHANGED <<handed, ready, cb, store, fallback, ih, vd>>

\* ingest.py:130-134: publish_event returned for the current event
IngestPublished(ok) ==
    /\ IngestOnly
    /\ req.pc = "publishing"
    /\ relay' = Published(CurrentEvent, ok)
    /\ req' = NextOfBatch(req)
    /\ UNCHANGED <<handed, ready, cb, store, fallback, ih, vd>>

\* ---- validation of one event and the timestamp of its insert ----

\* models.py:23-34: the fields of EventData; those declared without a default
\* are required.
Fields ==
    {"timestamp", "student_id", "face_match_confidence", "emotion",
     "emotion_confidence", "probabilities", "metrics", "ear", "head_pose",
     "source_device", "raw"}
Required == {"timestamp", "emotion", "emotion_confidence", "probabilities", "metrics"}

\* The ways an event reaches EventData: the callback of a capture worker, an
\* element of the list "events" of an /ingest body, the single-event form of
\* an /ingest body.
Paths == {"worker", "batch", "single"}

\* A timestamp string: ISO 8601 as isoformat() writes it, the same with a
\* trailing Z, or anything else.
TsForms == {"iso", "zulu", "garbage"}

\* A payload gives each field a value or leaves it out; "none" is Python's None.
EventDataValid(p) == \A f \in Required : p[f] = "value"

\* process_manager.py:34-35: setdefault("timestamp", payload.get("timestamp"))
\* stores None for a missing timestamp; source_device defaults to the device.
WorkerPayload(p) ==
    [f \in Fields |->
        IF p[f] # "absent" THEN p[f]
        ELSE CASE f = "timestamp" -> "none"
               [] f = "source_device" -> "value"
               [] OTHER -> "absent"]

\* ingest.py:93-105: the single-event form fills in timestamp, probabilities,
\* metrics and source_device and passes the other attributes as they are
\* (None when the body left them out).
SingleEvent(p) ==
    [f \in Fields |->
        IF p[f] # "absent" THEN p[f]
        ELSE IF f \in {"timestamp", "probabilities", "metrics", "source_device"}
             THEN "value" ELSE "none"]

BuiltPayload(path, p) ==
    CASE path = "worker" -> WorkerPayload(p)
      [] path = "single" -> SingleEvent(p)
      [] OTHER -> p

\* ingest.py:94: a missing timestamp of the single-event form is
\* datetime.utcnow().isoformat()
BuiltTsForm(path, p, form) ==
    IF path = "single" /\ p["timestamp"] = "absent" THEN "iso" ELSE form

\* ingest.py:31: event.timestamp.replace('Z', '+00:00')
ReplaceZ(form) == IF form = "zulu" THEN "iso" ELSE form

\* ingest.py:30-33: datetime.fromisoformat of the string, or, when that raises,
\* the time of receipt
ParseTimestamp(form) == IF ReplaceZ(form) = "iso" THEN "parsed" ELSE "receipt"

\* insert_event as it would be if the parse error reached the outer handler
InsertResultStrict(form, db) ==
    IF db = "ok" /\ ReplaceZ(form) = "iso" THEN "stored" ELSE "failed"

\* ingest.py:28-62: the result of insert_event depends on db.execute alone
InsertResult(form, db) == IF db = "ok" THEN "stored" ELSE "failed"

\* The events a behaviour may start with: any payload on any path.
ReceivedEvents ==
    {[pc |-> "received", path |-> pa, payload |-> p, tsform |-> tf, db |-> d,
      ts |-> "none"] :
        pa \in Paths, p \in [Fields -> {"absent", "value"}],
        tf \in TsForms, d \in {"ok", "error"}}

\* process_manager.py:33-39, ingest.py:88-112, models.py:36-37: EventData is built
ValidateEvent ==
    /\ IngestOnly
    /\ vd.pc = "received"
    /\ LET p == BuiltPayload(vd.path, vd.payload)
       IN vd' = [vd EXCEPT !.pc = IF EventDataValid(p) THEN "accepted" ELSE "rejected",
                           !.payload = p,
                           !.tsform = BuiltTsForm(vd.path, vd.payload, @)]
    /\ UNCHANGED <<handed, ready, cb, req, store, relay, fallback, ih>>

\* ingest.py:26-62: insert_event of the accepted event
InsertEvent ==
    /\ IngestOnly
    /\ vd.pc = "accepted"
    /\ vd' = [vd EXCEPT !.ts = ParseTimestamp(vd.tsform),
                        !.pc = InsertResult(vd.tsform, vd.db)]
    /\ UNCHANGED <<handed, ready, cb, req, store, relay, fallback, ih>>

NextValidate == ValidateEvent \/ InsertEvent

NextIngest ==
    \/ HandOver
    \/ \E v \in BOOLEAN : OnEventStart(v)
    \/ \E e \in WorkerEvents, ok \in BOOLEAN : OnEventInserted(e, ok)
    \/ \E e \in WorkerEvents, ok \in BOOLEAN : OnEventPublished(e, ok)
    \/ \E n \in 1..MaxBatch, k \in ApiKeys : IngestStart(n, k)
    \/ \E ok \in BOOLEAN, fbOk \in BOOLEAN : IngestInserted(ok, fbOk)
    \/ \E ok \in BOOLEAN : IngestPublished(ok)

(***************************************************************************)
(* Websocket rooms (api/ws.py)                                             *)
(*                                                                         *)
(* A handle is one WebSocket object, served once by websocket_live.  A     *)
(* coroutine is suspended at each await; between two awaits it runs as one *)
(* step of the event loop.  Message 0 in an inbox is the confirmation the  *)
(* relay sends for the subscribe command (its type is not "message").      *)
(***************************************************************************)
Rooms == {"cam1", "cam2"}
Handles == {"a", "b"}

\* The rooms a handle may ask for (the rooms are interchangeable: the first
\* handle always asks for the first).
RoomsOf(h) == IF h = "a" THEN {"cam1"} ELSE Rooms

NoTask == [pc |-> "none", sub |-> FALSE, inbox |-> <<>>, msg |-> 0, cur |-> "none",
           start |-> {}, seen |-> {}, dis |-> {}, sent |-> {}, failed |-> {},
           stale |-> FALSE]

NoBroadcast == [room |-> "none", msg |-> 0, start |-> {}, sent |-> {},
                failed |-> {}, aborted |-> FALSE]

InitWs ==
    /\ active = [r \in {} |-> {}]
    /\ conn = [h \in Handles |-> [pc |-> "idle", room |-> "none", up |-> FALSE,
                                  since |-> 0]]
    /\ fwd = [h \in Handles |-> NoTask]
    /\ recv = [h \in Handles |-> <<>>]
    /\ pubs = <<>>
    /\ lastBc = NoBroadcast

Members(r) == IF r \in DOMAIN active THEN active[r] ELSE {}

\* ws.py:36-38, ConnectionManager.connect after the accept
Connect(act, h, r) ==
    IF r \in DOMAIN act THEN [act EXCEPT ![r] = @ \cup {h}]
                        ELSE (r :> {h}) @@ act

\* A disconnect that keeps the key of a room it has emptied.
DisconnectKeepsKey(act, h, r) ==
    IF r \in DOMAIN act THEN [act EXCEPT ![r] = @ \ {h}] ELSE act

\* ws.py:41-47, ConnectionManager.disconnect
Disconnect(act, h, r) ==
    IF r \in DOMAIN act
    THEN IF act[r] \ {h} = {}
         THEN [x \in DOMAIN act \ {r} |-> act[x]]
         ELSE [act EXCEPT ![r] = @ \ {h}]
    ELSE act

\* ws.py:62-63: disconnect() for every handle of a set
RECURSIVE DisconnectAll(_, _, _)
DisconnectAll(act, hs, r) ==
    IF hs = {} THEN act
    ELSE LET h == CHOOSE x \in hs : TRUE
         IN DisconnectAll(Disconnect(act, h, r), hs \ {h}, r)

\* An iteration over the set object of room r that was under way when the set
\* was deleted from the dict goes on over the detached, now empty, object.
MarkStale(f, r, deleted) ==
    [h \in Handles |->
        IF deleted /\ conn[h].room = r /\ f[h].pc \in {"sending", "next"}
        THEN [f[h] EXCEPT !.stale = TRUE] ELSE f[h]]

KeyDeleted(act, act2, r) == r \in DOMAIN act /\ r \notin DOMAIN act2

\* ws.py:105-108: websocket_live accepts, registers the handle and creates a
\* forwarding task for this connection.
WsConnect(h, r) ==
    /\ WsOnly
    /\ conn[h].pc = "idle"
    /\ conn' = [conn EXCEPT ![h] = [pc |-> "open", room |-> r, up |-> TRUE,
                                    since |-> Len(pubs)]]
    /\ active' = Connect(active, h, r)
    /\ fwd' = [fwd EXCEPT ![h] = [NoTask EXCEPT !.pc = "created"]]
    /\ UNCHANGED <<recv, pubs, lastBc>>

\* The client goes away; the handler has not noticed yet.
ClientDrop(h) ==
    /\ WsOnly
    /\ conn[h].pc = "open" /\ conn[h].up
    /\ conn' = [conn EXCEPT ![h].up = FALSE]
    /\ UNCHANGED <<active, fwd, recv, pubs, lastBc>>

\* Task.cancel() on the forwarding task t.  A CancelledError is no Exception:
\* it ends the task at the awaits of subscribe_and_forward (ws.py:68-87), but the
\* bare except of broadcast_to_room (ws.py:56-59) catches it at the await of
\* send_text, files the handle being sent to as disconnected, and goes on.
Cancelled(t) ==
    CASE t.pc \in {"created", "subscribing", "listening", "unsubscribing"} ->
            [t EXCEPT !.pc = "ended", !.inbox = <<>>]
      [] t.pc \in {"sending", "next"} ->
            [t EXCEPT !.pc = "next", !.dis = @ \cup {t.cur}]
      [] OTHER -> t

\* ws.py:117-120: receive_text raises WebSocketDisconnect; the handler removes
\* the handle and cancels its task.  delivered: whether a send_text interrupted
\* by the cancellation had written its message.
WsDisconnect(h, delivered) ==
    /\ WsOnly
    /\ conn[h].pc = "open" /\ ~conn[h].up
    /\ LET r == conn[h].room
           act2 == Disconnect(active, h, r)
           t == fwd[h]
           hit == t.pc = "sending" /\ delivered /\ conn[t.cur].up
       IN /\ active' = act2
          /\ fwd' = [MarkStale(fwd, r, KeyDeleted(active, act2, r))
                        EXCEPT ![h] = Cancelled(@)]
          /\ recv' = IF hit THEN [recv EXCEPT ![t.cur] = Append(@, t.msg)] ELSE recv
          /\ (t.pc # "sending" \/ ~conn[t.cur].up) => delivered
    /\ conn' = [conn EXCEPT ![h].pc = "closed"]
    /\ UNCHANGED <<pubs, lastBc>>

\* ws.py:67-74: the task starts and awaits pubsub.subscribe
TaskStart(h) ==
    /\ WsOnly
    /\ fwd[h].pc = "created"
    /\ fwd' = [fwd EXCEPT ![h].pc = "subscribing"]
    /\ UNCHANGED <<active, conn, recv, pubs, lastBc>>

\* ws.py:74-78: the relay took the subscription; the task waits in listen()
Subscribed(h) ==
    /\ WsOnly
    /\ fwd[h].pc = "subscribing"
    /\ fwd' = [fwd EXCEPT ![h].pc = "listening", ![h].sub = TRUE, ![h].inbox = <<0>>]
    /\ UNCHANGED <<active, conn, recv, pubs, lastBc>>

\* publisher.py:32 seen from the relay: a message for room r reaches every
\* subscription to the channel of r that is being listened to.
RelayPublish(r) ==
    /\ WsOnly
    /\ Len(pubs) < MaxMsgs
    /\ pubs' = Append(pubs, r)
    /\ fwd' = [h \in Handles |->
                 IF fwd[h].sub /\ fwd[h].pc # "ended" /\ conn[h].room = r
                 THEN [fwd[h] EXCEPT !.inbox = Append(@, Len(pubs) + 1)]
                 ELSE fwd[h]]
    /\ UNCHANGED <<active, conn, recv, lastBc>>

\* ws.py:83-87: after each message, leave the loop when the room is empty
AfterMessage(t, act, r) ==
    [t EXCEPT !.pc = IF r \notin DOMAIN act \/ act[r] = {}
                     THEN "unsubscribing" ELSE "listening",
              !.msg = 0, !.cur = "none", !.start = {}, !.seen = {}, !.dis = {},
              !.sent = {}, !.failed = {}, !.stale = FALSE]

\* ws.py:78-81 and 49-57: listen() yields the next message; broadcast_to_room
\* starts iterating the room's set and awaits the first send_text.
Deliver(h) ==
    /\ WsOnly
    /\ fwd[h].pc = "listening" /\ fwd[h].inbox # <<>>
    /\ LET r == conn[h].room
           m == Head(fwd[h].inbox)
           t == [fwd[h] EXCEPT !.inbox = Tail(@)]
       IN IF m = 0 \/ r \notin DOMAIN active
          THEN fwd' = [fwd EXCEPT ![h] = AfterMessage(t, active, r)]
          ELSE \E c \in active[r] :
                 fwd' = [fwd EXCEPT ![h] =
                           [t EXCEPT !.pc = "sending", !.msg = m, !.cur = c,
                                     !.start = active[r], !.seen = {c}]]
    /\ UNCHANGED <<active, conn, recv, pubs, lastBc>>

\* ws.py:56-59: send_text returns, or raises because the client is gone
SendDone(h) ==
    /\ WsOnly
    /\ fwd[h].pc = "sending"
    /\ LET c == fwd[h].cur
       IN IF conn[c].up
          THEN /\ recv' = [recv EXCEPT ![c] = Append(@, fwd[h].msg)]
               /\ fwd' = [fwd EXCEPT ![h].pc = "next", ![h].sent = @ \cup {c}]
          ELSE /\ fwd' = [fwd EXCEPT ![h].pc = "next", ![h].dis = @ \cup {c},
                                     ![h].failed = @ \cup {c}]
               /\ UNCHANGED recv
    /\ UNCHANGED <<active, conn, pubs, lastBc>>

BroadcastEnded(t, r, aborted) ==
    [room |-> r, msg |-> t.msg, start |-> t.start, sent |-> t.sent,
     failed |-> t.failed, aborted |-> aborted]

\* ws.py:55: the for statement asks the set iterator for the next handle.  The
\* iterator raises RuntimeError when the size of its set differs from the size
\* at the start; the error leaves broadcast_to_room and ends the task in the
\* except clause of subscribe_and_forward (ws.py:90-91), without unsubscribe.
\* At the end of the set the failed handles are removed (ws.py:62-63).
IterNext(h) ==
    /\ WsOnly
    /\ fwd[h].pc = "next"
    /\ LET r == conn[h].room
           t == fwd[h]
           changed == t.stale \/ Cardinality(Members(r)) # Cardinality(t.start)
           rest == Members(r) \ t.seen
       IN IF changed
          THEN /\ fwd' = [fwd EXCEPT ![h] = [AfterMessage(t, active, r)
                                              EXCEPT !.pc = "ended", !.inbox = <<>>]]
               /\ lastBc' = BroadcastEnded(t, r, TRUE)
               /\ UNCHANGED active
          ELSE IF rest = {}
          THEN LET act2 == DisconnectAll(active, t.dis, r)
               IN /\ active' = act2
                  /\ fwd' = [MarkStale(fwd, r, KeyDeleted(active, act2, r))
                                EXCEPT ![h] = AfterMessage(t, act2, r)]
                  /\ lastBc' = BroadcastEnded(t, r, FALSE)
          ELSE /\ \E c \in rest :
                    fwd' = [fwd EXCEPT ![h].pc = "sending", ![h].cur = c,
                                       ![h].seen = @ \cup {c}]
               /\ UNCHANGED <<active, lastBc>>
    /\ UNCHANGED <<conn, recv, pubs>>

\* ws.py:87: pubsub.unsubscribe returned; the task is over
Unsubscribed(h) ==
    /\ WsOnly
    /\ fwd[h].pc = "unsubscribing"
    /\ fwd' = [fwd EXCEPT ![h].pc = "ended", ![h].sub = FALSE, ![h].inbox = <<>>]
    /\ UNCHANGED <<active, conn, recv, pubs, lastBc>>

NextWs ==
    \/ \E h \in Handles : \E r \in RoomsOf(h) : WsConnect(h, r)
    \/ \E h \in Handles : ClientDrop(h)
    \/ \E h \in Handles, dl \in BOOLEAN : WsDisconnect(h, dl)
    \/ \E h \in Handles : TaskStart(h)
    \/ \E h \in Handles : Subscribed(h)
    \/ \E r \in Rooms : RelayPublish(r)
    \/ \E h \in Handles : Deliver(h)
    \/ \E h \in Handles : SendDone(h)
    \/ \E h \in Handles : IterNext(h)
    \/ \E h \in Handles : Unsubscribed(h)

(***************************************************************************)
(* Metrics engine (src/emotion_monitor.py, class MetricsEngine)            *)
(*                                                                         *)
(* Real numbers are fixed-point integers in thousandths: 1000 stands for   *)
(* 1.0, and a product of two such numbers is divided by 1000 (rounded      *)
(* down).  None is the empty sequence, a value v the sequence <<v>>.       *)
(***************************************************************************)
short_w == 30
long_w == 300
ema_alpha == 200

\* emotion_monitor.py:53, and the order compute() unpacks a probability vector
LABELS == <<"Happy", "Sad", "Angry", "Surprise", "Fear", "Disgust", "Neutral">>

\* The probability vectors of the model: softmax outputs, which sum to 1 up
\* to rounding.
ProbVectors ==
    {<<800, 33, 33, 33, 33, 33, 33>>,
     <<50, 50, 50, 50, 50, 50, 700>>,
     <<0, 100, 700, 0, 100, 100, 0>>}

\* emotion_monitor.py:261-262: the label of the largest probability
ArgMax(p) == CHOOSE i \in 1..Len(p) : \A j \in 1..Len(p) : p[j] < p[i] \/ (p[j] = p[i] /\ i <= j)

\* The arguments of one push (emotion_monitor.py:365, and calls without a
\* box): box is (x, y, w, h) in pixels or None, ear a ratio or None.
Faces ==
    {[box |-> <<>>, ear |-> <<>>],
     [box |-> <<0, 0, 100, 100>>, ear |-> <<300>>],
     [box |-> <<60, 80, 100, 100>>, ear |-> <<120>>]}
PushArgs ==
    {[probs |-> p, top |-> LABELS[ArgMax(p)], box |-> f.box, ear |-> f.ear] :
        p \in ProbVectors, f \in Faces}

\* The sample of a steady, content face: Happy at 0.8 and the remainder split
\* over the six other labels, the box where it was, no eye aspect ratio.
HappyArgs ==
    LET p == <<800, 33, 33, 33, 33, 33, 33>>
    IN [probs |-> p, top |-> LABELS[ArgMax(p)], box |-> <<0, 0, 100, 100>>, ear |-> <<>>]

\* The i-th push of the fixed cycle.
CycleArgs(i) ==
    LET ps == <<<<800, 33, 33, 33, 33, 33, 33>>, <<50, 50, 50, 50, 50, 50, 700>>,
                <<0, 100, 700, 0, 100, 100, 0>>>>
        p == ps[(i % 3) + 1]
    IN [probs |-> p, top |-> LABELS[ArgMax(p)],
        box |-> IF i % 2 = 0 THEN <<0, 0, 100, 100>> ELSE <<60, 80, 100, 100>>,
        ear |-> IF i % 2 = 0 THEN <<300>> ELSE <<120>>]

\* emotion_monitor.py:110-121: MetricsEngine.__init__
NewEngine ==
    [buf |-> <<>>, long_buf |-> <<>>, center_vel |-> <<>>, prev_center |-> <<>>,
     eng_ema |-> <<>>]

InitEngine(plan) ==
    /\ metrics_engine = NewEngine
    /\ metrics = [k \in {} |-> 0]
    /\ mh = [plan |-> plan, pushes |-> 0, computes |-> 0, op |-> "none", eng |-> <<>>]

\* A deque that keeps every element and drops the new one when it is full.
DequeAppendDropsNew(q, x, maxlen) == IF Len(q) < maxlen THEN Append(q, x) ELSE q

\* collections.deque(maxlen=...).append: when the deque is full the element at
\* the left end is discarded.
DequeAppend(q, x, maxlen) ==
    IF Len(q) < maxlen THEN Append(q, x) ELSE Append(Tail(q), x)

\* The largest r with r * r <= v (math.hypot, np.std), for v below 1001 * 1001.
RECURSIVE SqrtIn(_, _, _)
SqrtIn(v, lo, hi) ==
    IF lo = hi THEN lo
    ELSE LET mid == (lo + hi + 1) \div 2
         IN IF mid * mid <= v THEN SqrtIn(v, mid, hi) ELSE SqrtIn(v, lo, mid - 1)
Sqrt(v) == SqrtIn(v, 0, 1000)

Max(a, b) == IF a >= b THEN a ELSE b

\* emotion_monitor.py:135-150: the velocity entry and the centroid of a push
Centre(box) == <<box[1] + box[3] \div 2, box[2] + box[4] \div 2>>
NormDist(prev, box) ==
    LET c == Centre(box)
        dist == IF prev = <<>> THEN 0
                ELSE Sqrt((c[1] - prev[1]) * (c[1] - prev[1])
                          + (c[2] - prev[2]) * (c[2] - prev[2]))
    IN (dist * 1000) \div Max(1, (box[3] + box[4]) \div 2)

\* A push that records a velocity only for a sample with a box.
PushToSkipsBoxless(e, a, ts) ==
    LET sample == [probs |-> a.probs, top |-> a.top, box |-> a.box, ear |-> a.ear,
                   ts |-> ts]
        b2 == DequeAppend(e.buf, sample, short_w)
    IN [e EXCEPT
          !.buf = b2,
          !.long_buf = DequeAppend(@, b2[Len(b2)], long_w),
          !.center_vel = IF a.box # <<>>
                         THEN DequeAppend(@, NormDist(e.prev_center, a.box), short_w)
                         ELSE @,
          !.prev_center = IF a.box # <<>> THEN Centre(a.box) ELSE @]

\* emotion_monitor.py:123-150: MetricsEngine.push; ts is the time of the push
PushTo(e, a, ts) ==
    LET sample == [probs |-> a.probs, top |-> a.top, box |-> a.box, ear |-> a.ear,
                   ts |-> ts]
        b2 == DequeAppend(e.buf, sample, short_w)
    IN [e EXCEPT
          !.buf = b2,
          !.long_buf = DequeAppend(@, b2[Len(b2)], long_w),
          !.center_vel = DequeAppend(@, IF a.box # <<>> THEN NormDist(e.prev_center, a.box)
                                        ELSE 0, short_w),
          !.prev_center = IF a.box # <<>> THEN Centre(a.box) ELSE @]

Push(a) ==
    /\ EngineOnly
    /\ \/ mh.plan = "any" /\ mh.pushes < MaxPushes /\ a \in PushArgs
       \/ mh.plan = "cycle" /\ mh.pushes < long_w + MaxOver /\ a = CycleArgs(mh.pushes)
       \/ mh.plan = "frames" /\ mh.pushes < MaxFrames /\ mh.pushes = mh.computes
          /\ a = HappyArgs
    /\ metrics_engine' = PushTo(metrics_engine, a, mh.pushes + 1)
    /\ mh' = [mh EXCEPT !.pushes = @ + 1, !.op = "push"]
    /\ UNCHANGED metrics

\* ---- MetricsEngine.compute ----

\* np.clip(v, 0, 1) without its bounds
ClipNone(v) == v

\* np.clip(v, 0, 1)
Clip(v) == IF v < 0 THEN 0 ELSE IF v > 1000 THEN 1000 ELSE v

RECURSIVE SumTo(_, _)
SumTo(s, n) == IF n = 0 THEN 0 ELSE s[n] + SumTo(s, n - 1)

\* np.mean of a non-empty sequence
Mean(s) == SumTo(s, Len(s)) \div Len(s)

\* np.std of a non-empty sequence
Std(s) ==
    LET m == Mean(s)
        sq == [k \in 1..Len(s) |-> (s[k] - m) * (s[k] - m)]
    IN Sqrt(Mean(sq))

\* Column i of the probability vectors of a window (probs_arr[:, i-1])
Column(win, i) == [k \in 1..Len(win) |-> win[k].probs[i]]

\* -x * log(x + 1e-12) / log(7) for x in 0..1000: the values at the multiples
\* of 100, and between two of them the straight line.
EntropyTable == <<0, 118, 165, 186, 188, 178, 158, 128, 92, 49, 0>>
EntropyTerm(x) ==
    LET k == x \div 100
    IN IF k >= 10 THEN 0
       ELSE EntropyTable[k + 1]
            + ((EntropyTable[k + 2] - EntropyTable[k + 1]) * (x - 100 * k)) \div 100

\* emotion_monitor.py:163-164
Attentiveness(cur) ==
    Clip((600 * cur[4] + 350 * cur[7]
          - 250 * (cur[2] + cur[3] + cur[5] + cur[6])) \div 1000)

\* emotion_monitor.py:167-168
Positivity(cur) ==
    LET P_raw == (1000 * cur[1] + 200 * cur[7] - 600 * cur[2] - 600 * cur[3]
                  - 500 * cur[6] - 400 * cur[5] + 150 * cur[4]) \div 1000
    IN Clip(((P_raw + 600) * 1000) \div 1600)

\* emotion_monitor.py:171
EngRaw(cur) == (700 * Attentiveness(cur) + 300 * Positivity(cur)) \div 1000

\* An average that smooths its first value as well, starting from 0.
EmaAlwaysSmooth(ema, raw) ==
    IF ema = <<>> THEN <<(ema_alpha * raw) \div 1000>>
    ELSE <<((1000 - ema_alpha) * ema[1] + ema_alpha * raw) \div 1000>>

\* emotion_monitor.py:172-175
EmaUpdate(ema, raw) ==
    IF ema = <<>> THEN <<raw>>
    ELSE <<((1000 - ema_alpha) * ema[1] + ema_alpha * raw) \div 1000>>

\* emotion_monitor.py:179, 211: the share of samples whose label is Neutral or Sad
NeutralSad(win) ==
    (Cardinality({k \in 1..Len(win) : win[k].top \in {"Neutral", "Sad"}}) * 1000)
        \div Len(win)

\* emotion_monitor.py:179-183
Boredom(buf) ==
    LET ent == SumTo([i \in 1..7 |-> EntropyTerm(Mean(Column(buf, i)))], 7)
    IN Clip((800 * NeutralSad(buf) + 200 * (1000 - ent)) \div 1000)

\* emotion_monitor.py:186-189
Frustration(buf) ==
    LET n == Len(buf)
        cur == buf[n].probs
        base == cur[3] + cur[5] + cur[6]
        prev_mean == IF n > 1
                     THEN SumTo([k \in 1..(n - 1) |-> buf[k].probs[3] + buf[k].probs[5]
                                                        + buf[k].probs[6]], n - 1)
                          \div (n - 1)
                     ELSE 0
        trend == Max(0, base - prev_mean)
    IN Clip((600 * base + 400 * trend) \div 1000)

\* emotion_monitor.py:192, 213: np.mean(np.std(probs, axis=0))
MeanStd(win) == Mean([i \in 1..7 |-> Std(Column(win, i))])

\* emotion_monitor.py:193
Volatility(buf) == Clip((MeanStd(buf) * 1000) \div 500)

\* emotion_monitor.py:196-198
Distraction(e) ==
    LET move == Clip(Mean(e.center_vel) * 3)
        att == Attentiveness(e.buf[Len(e.buf)].probs)
    IN Clip((600 * move + 400 * (1000 - att)) \div 1000)

\* emotion_monitor.py:201-206
Fatigue(buf) ==
    LET ks == {k \in 1..Len(buf) : buf[k].ear # <<>>}
        RECURSIVE EarSum(_)
        EarSum(S) == IF S = {} THEN 0
                     ELSE LET k == CHOOSE x \in S : TRUE
                          IN buf[k].ear[1] + EarSum(S \ {k})
    IN IF ks # {}
       THEN Clip(1000 - (((EarSum(ks) \div Cardinality(ks)) - 100) * 1000) \div 250)
       ELSE 0

\* emotion_monitor.py:216: the risk from the short window
RiskShort(e) ==
    Clip((500 * Boredom(e.buf) + 300 * Frustration(e.buf)
          + 200 * Volatility(e.buf)) \div 1000)

\* emotion_monitor.py:210-214: the risk from the long window
RiskLong(e) ==
    Clip((500 * NeutralSad(e.long_buf) + 300 * Frustration(e.buf)
          + 200 * Clip((MeanStd(e.long_buf) * 1000) \div 500)) \div 1000)

\* A compute that takes the long-window branch from 10 samples on.
UseLongWindowFromTen(e) == Len(e.long_buf) >= 10

\* emotion_monitor.py:209
UseLongWindow(e) == Len(e.long_buf) > 10

\* emotion_monitor.py:152-228: the dictionary compute() returns for an engine
\* with samples whose average has been updated
Computed(e) ==
    LET cur == e.buf[Len(e.buf)].probs
    IN [attentiveness |-> Attentiveness(cur),
        positivity |-> Positivity(cur),
        engagement |-> Clip(e.eng_ema[1]),
        boredom |-> Boredom(e.buf),
        frustration |-> Frustration(e.buf),
        volatility |-> Volatility(e.buf),
        distraction |-> Distraction(e),
        fatigue |-> Fatigue(e.buf),
        risk |-> IF UseLongWindow(e) THEN RiskLong(e) ELSE RiskShort(e)]

\* A compute that also uses up the velocities it has averaged.
ComputeOnConsumes(e) ==
    [e EXCEPT !.eng_ema = EmaUpdate(@, EngRaw(e.buf[Len(e.buf)].probs)),
              !.center_vel = <<0>>]

\* emotion_monitor.py:172-175: the only assignment compute() makes to the
\* engine, for an engine with samples
ComputeOn(e) ==
    [e EXCEPT !.eng_ema = EmaUpdate(@, EngRaw(e.buf[Len(e.buf)].probs))]

\* MetricsEngine.compute: {} for an engine without samples.  mh.eng is the
\* engagement of every dictionary returned so far, and whether the call
\* followed another compute directly.
Compute ==
    /\ EngineOnly
    /\ \/ mh.plan = "any" /\ mh.computes < MaxComputes
       \/ mh.plan = "cycle" /\ mh.computes < 1
       \/ mh.plan = "frames" /\ mh.computes < mh.pushes
    /\ IF metrics_engine.buf = <<>>
       THEN /\ metrics' = [k \in {} |-> 0]
            /\ UNCHANGED metrics_engine
            /\ mh' = [mh EXCEPT !.computes = @ + 1, !.op = "compute"]
       ELSE LET e2 == ComputeOn(metrics_engine)
            IN /\ metrics_engine' = e2
               /\ metrics' = Computed(e2)
               /\ mh' = [mh EXCEPT !.computes = @ + 1, !.op = "compute",
                                   !.eng = Append(@, [value |-> Computed(e2).engagement,
                                                      again |-> mh.op = "compute"])]

NextEngine ==
    \/ \E a \in PushArgs \cup {HappyArgs} : Push(a)
    \/ Compute

(***************************************************************************)
(* Capture sessions (api/capture.py)                                       *)
(*                                                                         *)
(* The handlers are coroutines of the event loop: between two awaits of    *)
(* the database a handler runs without interruption, and a statement       *)
(* takes effect when its await completes.  The id of a session is its      *)
(* index in the table.                                                     *)
(***************************************************************************)
InitSessions ==
    /\ sessions = <<>>
    /\ api = [co |-> {}, started |-> 0]

SessionIds == 1..Len(sessions)

\* capture.py:42-70: the device was fetched; get_status does not report a
\* running worker (otherwise 400 and nothing changes), and the INSERT of the
\* session is awaited.
CreateSessionCheck(d) ==
    /\ CaptureOnly
    /\ LoopFree
    /\ api.started < MaxSessions
    /\ ~StatusRunning(d)
    /\ api' = [co |-> api.co \cup {[id |-> api.started + 1, op |-> "create",
                                     dev |-> d, sid |-> 0, status |-> "running"]},
               started |-> api.started + 1]
    /\ UNCHANGED <<sessions, workerVars>>

\* capture.py:60-88: the INSERT returned the row, with status running;
\* start_capture runs without a suspension; when it returns False the UPDATE
\* to failed is awaited, otherwise the request ends (the UPDATE of the devices
\* table does not touch the sessions).
CreateSessionInserted(c, spawnOk) ==
    /\ CaptureOnly
    /\ LoopFree
    /\ c \in api.co /\ c.op = "create" /\ c.sid = 0
    /\ sessions' = Append(sessions, [device_id |-> c.dev, status |-> "running"])
    /\ StartCaptureCall(c.dev, Len(sessions) + 1, spawnOk)
    /\ api' = [api EXCEPT !.co =
                  (@ \ {c}) \cup
                  (IF ~AlreadyRunning(c.dev) /\ spawnOk THEN {}
                   ELSE {[c EXCEPT !.sid = Len(sessions) + 1, !.status = "failed"]})]
    /\ UNCHANGED <<stopping, cnt, lim, loopj>>

\* capture.py:79-84: the UPDATE of a session whose worker did not start
CreateSessionFailed(c) ==
    /\ CaptureOnly
    /\ c \in api.co /\ c.op = "create" /\ c.sid # 0
    /\ sessions' = [sessions EXCEPT ![c.sid].status = c.status]
    /\ api' = [api EXCEPT !.co = @ \ {c}]
    /\ UNCHANGED workerVars

\* capture.py:154-169: the row was fetched and its status is running
\* (otherwise 400 and nothing changes); stop_capture is called for the device
\* of the row and blocks the loop thread while stop() runs.
StopSession(sid) ==
    /\ CaptureOnly
    /\ LoopFree
    /\ sid \in SessionIds /\ sessions[sid].status = "running"
    /\ StopCaptureCall(sessions[sid].device_id)
    /\ loopj' = [pc |-> "stop_session", w |-> sid, val |-> <<>>, seen |-> {}]
    /\ UNCHANGED <<obj, proc, thr, lim, fut, sessions, api>>

\* capture.py:169-176: stop_capture has returned; the UPDATE of the row to
\* stopped or failed is awaited.
StopSessionReturned ==
    /\ CaptureOnly
    /\ loopj.pc = "stop_session" /\ stopping.pc = "idle"
    /\ api' = [api EXCEPT !.co =
                  @ \cup {[id |-> 0, op |-> "stop", dev |-> sessions[loopj.w].device_id,
                           sid |-> loopj.w,
                           status |-> IF last.value THEN "stopped" ELSE "failed"]}]
    /\ loopj' = LoopIdle
    /\ UNCHANGED <<sessions, workers, obj, proc, thr, stopping, last, cnt, lim, fut>>

\* capture.py:171-176: the UPDATE of the stopped session
StopSessionUpdated(c) ==
    /\ CaptureOnly
    /\ c \in api.co /\ c.op = "stop"
    /\ sessions' = [sessions EXCEPT ![c.sid].status = c.status]
    /\ api' = [api EXCEPT !.co = @ \ {c}]
    /\ UNCHANGED workerVars

NextCapture ==
    \/ \E d \in Devices : CreateSessionCheck(d)
    \/ \E c \in api.co, ok \in BOOLEAN : CreateSessionInserted(c, ok)
    \/ \E c \in api.co : CreateSessionFailed(c)
    \/ \E s \in SessionIds : StopSession(s)
    \/ StopSessionReturned
    \/ \E c \in api.co : StopSessionUpdated(c)
    \/ \E r \in BOOLEAN : StopTerminate(r)
    \/ StopWaitExited
    \/ StopWaitTimeout
    \/ StopKill
    \/ StopJoinStdout
    \/ StopJoinStderr
    \/ \E i \in WorkerIds : ProcExit(i)
    \/ \E i \in WorkerIds : ProcCloseStdout(i)
    \/ \E i \in WorkerIds : ReadStdout(i)
    \/ \E i \in WorkerIds : ReadStderr(i)

(***************************************************************************)
(* Specifications                                                          *)
(***************************************************************************)
NoWorkers == [spawns |-> 0, lines |-> 0, kinds |-> {}]

\* The supervisor with MaxSpawns processes on two devices; one event line.
Init == InitWorker([spawns |-> MaxSpawns, lines |-> 1, kinds |-> {"json"}])
        /\ InitIngest /\ InitWs /\ InitEngine("none") /\ InitSessions

Next == NextWorker

Spec == Init /\ [][Next]_vars

\* One capture process writing MaxLines lines of every kind.
InitReader == InitWorker([spawns |-> 1, lines |-> MaxLines, kinds |-> LineKinds])
              /\ InitIngest /\ InitWs /\ InitEngine("none") /\ InitSessions

SpecReader == InitReader /\ [][Next]_vars

\* The supervisor with the completions of the callbacks its reader scheduled.
NextCallbacks ==
    \/ NextWorker
    \/ \E i \in WorkerIds, r \in BOOLEAN : CallbackDone(i, r)
    \/ HfrStore

\* One worker whose process writes MaxLines lines, events or JSON that is no
\* object, and whose callbacks complete or raise.
InitCallbacks ==
    InitWorker([spawns |-> 1, lines |-> MaxLines, kinds |-> {"json", "nonobject"}])
    /\ InitIngest /\ InitWs /\ InitEngine("none") /\ InitSessions

SpecCallbacks == InitCallbacks /\ [][NextCallbacks]_vars

\* The supervisor with status requests served while the reader thread runs.
NextStatus ==
    \/ NextWorker
    \/ \E d \in Devices : StatusBegin(d)
    \/ StatusReadEvents
    \/ StatusReadErrors

SpecStatus == InitCallbacks /\ [][NextStatus]_vars

\* The supervisor and the shutdown of the application.
NextShutdown ==
    \/ NextWorker
    \/ StopAllBegin
    \/ StopAllNext
    \/ StopAllEnd

SpecShutdown == Init /\ [][NextShutdown]_vars

\* The ingestion pipeline alone.
InitPipeline ==
    InitWorker(NoWorkers) /\ InitIngest /\ InitWs /\ InitEngine("none") /\ InitSessions

SpecIngest == InitPipeline /\ [][NextIngest]_vars

\* One event, any payload, through validation and insert_event.
InitValidate ==
    /\ InitWorker(NoWorkers) /\ InitQueues /\ InitWs /\ InitEngine("none")
    /\ InitSessions
    /\ vd \in ReceivedEvents

SpecValidate == InitValidate /\ [][NextValidate]_vars

\* The websocket rooms of one server process and the relay.
SpecWs == InitPipeline /\ [][NextWs]_vars

\* The websocket rooms with fewer messages: connects, disconnects and the
\* broadcasts of MaxRoomMsgs messages.
NextRooms ==
    \/ \E h \in Handles : \E r \in RoomsOf(h) : WsConnect(h, r)
    \/ \E h \in Handles : ClientDrop(h)
    \/ \E h \in Handles, dl \in BOOLEAN : WsDisconnect(h, dl)
    \/ \E h \in Handles : TaskStart(h)
    \/ \E h \in Handles : Subscribed(h)
    \/ \E r \in Rooms : Len(pubs) < MaxRoomMsgs /\ RelayPublish(r)
    \/ \E h \in Handles : Deliver(h)
    \/ \E h \in Handles : SendDone(h)
    \/ \E h \in Handles : IterNext(h)
    \/ \E h \in Handles : Unsubscribed(h)

SpecRooms == InitPipeline /\ [][NextRooms]_vars

\* The event loop runs every coroutine that can go on: a task whose await has
\* completed is resumed, and a handler whose client is gone gets its
\* WebSocketDisconnect.  Clients and publishers are under no obligation.
LoopFairness ==
    /\ \A h \in Handles : WF_vars(\E dl \in BOOLEAN : WsDisconnect(h, dl))
    /\ \A h \in Handles : WF_vars(TaskStart(h))
    /\ \A h \in Handles : WF_vars(Subscribed(h))
    /\ \A h \in Handles : WF_vars(Deliver(h))
    /\ \A h \in Handles : WF_vars(SendDone(h))
    /\ \A h \in Handles : WF_vars(IterNext(h))
    /\ \A h \in Handles : WF_vars(Unsubscribed(h))

SpecWsFair == SpecWs /\ LoopFairness

\* The metrics engine alone: either MaxPushes samples of any kind, or the
\* samples of a fixed cycle until the long window has overflowed, or the
\* frames of the main loop (emotion_monitor.py:365-366: a push, then a
\* compute) with a steady face.
InitMetrics ==
    /\ InitWorker(NoWorkers) /\ InitIngest /\ InitWs /\ InitSessions
    /\ \E plan \in {"any", "cycle", "frames"} : InitEngine(plan)

SpecEngine == InitMetrics /\ [][NextEngine]_vars

\* The capture sessions: MaxSessions create requests, and as many processes.
InitCapture ==
    InitWorker([spawns |-> MaxSessions, lines |-> 0, kinds |-> {}])
    /\ InitIngest /\ InitWs /\ InitEngine("none") /\ InitSessions

SpecCapture == InitCapture /\ [][NextCapture]_vars

(***************************************************************************)
(* Claims about the worker supervisor                                      *)
(***************************************************************************)
\* A step that is a call of start_capture / of stop_capture.
StartStep == last' # last /\ last'.op = "start"
StopCallStep == stopping.pc = "idle" /\ last' # last /\ last'.op = "stop"
StopReturned == last.op = "stop" /\ last.phase = "returned"

\* C1: in every reachable state each device has at most one live capture
\* process and at most one worker that reports running.
C1_OneProcessPerDevice ==
    \A d \in Devices :
        /\ Cardinality(LiveProcesses(d)) <= 1
        /\ Cardinality(RunningWorkers(d)) <= 1

\* C2 (as stated): once StartWorker calls on a device that had no worker before
\* have returned (no stop in between), exactly one of them returned true, that
\* is, exactly one worker was started for the device.
C2_ExactlyOneStartSucceeds ==
    (last.op = "start" /\ ~cnt.anyStop) =>
        Cardinality({i \in WorkerIds : obj[i].device_id = last.dev}) = 1

\* C2 (amended): a StartWorker for a device whose worker reports running returns
\* false, launches no process and changes neither the registry nor any worker;
\* a StartWorker returns true only when no worker of the device reported running,
\* it then launched exactly one process and the device reports running; a
\* StartWorker that returns false launched nothing.
C2_StartRefusedWhileRunning ==
    [][StartStep =>
        LET d == last'.dev
            was == workers[d] # 0 /\ obj[workers[d]].is_running
        IN /\ was => ~last'.value
           /\ last'.value =>
                 /\ Len(proc') = Len(proc) + 1
                 /\ workers'[d] = Len(proc')
                 /\ obj'[workers'[d]].is_running
                 /\ proc'[workers'[d]].alive
           /\ ~last'.value => UNCHANGED <<workers, obj, proc, thr>>]_vars

\* C2 witness: a StartWorker was refused because the device's worker was running.
C2_RefusedStart ==
    /\ last.op = "start" /\ last.runningAtCall /\ ~last.value
    /\ StatusRunning(last.dev)

\* C8: after StopWorker returned true the process is gone, the device does not
\* report running, both reader threads have ended and a second StopWorker
\* would return false.
C8_StopTrueReleasesEverything ==
    (StopReturned /\ last.value) =>
        /\ ~proc[last.w].alive
        /\ ~StatusRunning(last.dev)
        /\ thr[last.w].stdout = "done"
        /\ thr[last.w].stderr = "done"

\* C9 (as stated): a StopWorker for a device with no entry, with a worker that
\* does not report running, or with a worker whose process has already exited
\* returns false at once and changes nothing.
C9_StopNotRunningIsNoop ==
    [][\A d \in Devices :
        (StopCallStep /\ last'.dev = d
         /\ (workers[d] = 0 \/ ~obj[workers[d]].is_running \/ ~proc[workers[d]].alive))
        => /\ last'.phase = "returned" /\ ~last'.value
           /\ UNCHANGED <<workers, obj, proc, thr, stopping>>]_vars

\* C9 (amended): a StopWorker for a device with no entry or whose worker does
\* not report running returns false at once and changes nothing: registry,
\* workers, processes and threads are as before.
C9_StopNotReportedRunningIsNoop ==
    [][\A d \in Devices :
        (StopCallStep /\ last'.dev = d
         /\ (workers[d] = 0 \/ ~obj[workers[d]].is_running))
        => /\ last'.phase = "returned" /\ ~last'.value
           /\ UNCHANGED <<workers, obj, proc, thr, stopping>>]_vars

\* C9 witness: StopWorker returned false for a registered worker that no longer
\* reports running, while another worker is running.
C9_StopFalseOnStoppedWorker ==
    /\ StopReturned /\ ~last.value /\ ~last.runningAtCall
    /\ workers[last.dev] # 0
    /\ \E d \in Devices : StatusRunning(d)

\* The JSON object lines still unread in the pipe of worker i.
JsonUnread(i) == Len(SelectSeq(proc[i].stdout, LAMBDA k : k = "json"))

\* C10: a line that is not valid JSON neither ends the stdout reader loop nor
\* stops the worker: the reader ends only at end of stream, and every JSON object
\* line written is handed to the callback or still waits for the running reader.
C10_ReaderSurvivesBadLines ==
    \A i \in WorkerIds :
        /\ thr[i].stdout = "done" => (~proc[i].out_open /\ proc[i].stdout = <<>>)
        /\ proc[i].json_emitted
             = obj[i].events_count
               + (IF thr[i].stdout = "running" THEN JsonUnread(i) ELSE 0)

\* C11: once the standard output of a worker's process has reached end of
\* stream and its reader has ended, the worker reports is_running = false with
\* events_count = the number of event lines the process wrote; and a StopWorker
\* for a worker that did not report running returned false.
C11_EndOfStreamSettlesStatus ==
    /\ \A i \in WorkerIds :
          (~proc[i].out_open /\ thr[i].stdout = "done") =>
              /\ ~obj[i].is_running
              /\ obj[i].events_count = proc[i].json_emitted
    /\ (StopReturned /\ ~last.runningAtCall) => ~last.value

\* A step of _handle_future_result for a callback that raised.
HfrStep == loopj' # loopj /\ (loopj.pc = "hfr" \/ loopj'.pc = "hfr")

\* C13: a callback that raises adds one to the worker's error counter (the
\* counter is the number of callbacks that raised plus the errors the reader
\* counted, once no increment is under way), and handling it touches neither
\* the process, nor the reader threads, nor the running flag, nor the events
\* counter, nor the registry.
C13_CallbackErrorIsolated ==
    /\ [](\A i \in WorkerIds :
            (loopj.pc = "hfr" /\ loopj.w = i)
            \/ obj[i].error_count = fut[i].raised + fut[i].reader_errors)
    /\ [][HfrStep =>
            /\ UNCHANGED <<proc, thr, workers>>
            /\ \A i \in WorkerIds :
                  /\ obj'[i].is_running = obj[i].is_running
                  /\ obj'[i].events_count = obj[i].events_count]_vars

\* C14: the snapshot a get_status returned (running flag, events counter,
\* error counter) is a state the worker was in during the call.
C14_SnapshotNeverTorn ==
    (loopj.pc = "idle" /\ Len(loopj.val) = 3) => loopj.val \in loopj.seen

\* C15: stop() on a running worker goes terminate, wait, kill only when the wait
\* timed out with the process still alive, join of the stdout reader, join of
\* the stderr reader, success report: each position is entered from the one
\* before only, terminate is requested only for a worker that reported running,
\* the joins start only once the process is gone, and true is reported only
\* after the second join.
C15_StopSequenceOrder ==
    [][/\ stopping'.pc = "terminate" =>
             \/ stopping.pc = "terminate"
             \/ stopping.pc = "idle" /\ obj[stopping'.w].is_running
       /\ stopping'.pc = "wait" => stopping.pc \in {"terminate", "wait"}
       /\ stopping'.pc = "kill" =>
             \/ stopping.pc = "kill"
             \/ stopping.pc = "wait" /\ proc[stopping.w].alive
       /\ stopping'.pc = "join_stdout" =>
             /\ stopping.pc \in {"wait", "kill", "join_stdout"}
             /\ ~proc'[stopping.w].alive
       /\ stopping'.pc = "join_stderr" =>
             stopping.pc \in {"join_stdout", "join_stderr"}
       /\ (last' # last /\ last'.op = "stop" /\ last'.phase = "returned"
           /\ last'.value) => stopping.pc = "join_stderr"]_vars

\* C15 witness: a StopWorker of a worker whose process was alive returned true.
C15_StopOfLiveProcessSucceeded ==
    StopReturned /\ last.value /\ last.aliveAtCall /\ ~proc[last.w].alive

\* C16: when stop_all has returned, no worker of the registry reports running
\* and no capture process the supervisor started is alive.
C16_StopAllLeavesNothingRunning ==
    last.op = "stop_all" =>
        /\ \A d \in Devices : ~StatusRunning(d)
        /\ \A i \in WorkerIds : ~proc[i].alive

\* A lifecycle operation has reported a failure: a start that was not refused
\* (the launch failed), or a stop that returned false.
LifecycleFailed ==
    /\ last.phase = "returned" /\ ~last.value
    /\ \/ last.op = "stop"
       \/ last.op = "start" /\ ~last.runningAtCall

\* The registry entry of device d agrees with its process.
RegistryConsistent(d) ==
    workers[d] # 0 => (obj[workers[d]].is_running <=> proc[workers[d]].alive)

\* C25: after a lifecycle operation reported a failure by returning false, the
\* registry is consistent: the worker of the device does not report running
\* with a dead process, nor not-running with a live one.
C25_FailureLeavesRegistryConsistent ==
    LifecycleFailed => RegistryConsistent(last.dev)

\* process_manager.py:72-73: the devices get_all_status reports
AllStatusDevices == {d \in Devices : workers[d] # 0}

\* C26: a worker exists only while running: every worker held in the
\* registry, and so every worker get_all_status reports, is running.
C26_RegistryHoldsOnlyRunning ==
    \A d \in AllStatusDevices : obj[workers[d]].is_running

\* The sessions of device d with status running.
RunningSessions(d) ==
    {s \in SessionIds : sessions[s].device_id = d /\ sessions[s].status = "running"}

\* A worker that was started for session s is registered and reports running.
WorkerOfSessionRunning(s) ==
    \E d \in Devices :
        /\ workers[d] # 0
        /\ obj[workers[d]].session_id = s
        /\ obj[workers[d]].is_running

\* No request is being served: no handler is suspended and the loop is free.
NoRequestInFlight == api.co = {} /\ LoopFree

\* C34: once the requests in flight have been served, a device has at most
\* one session with status running, and a session has status running only
\* while a worker bound to its id is running: no stale running session after
\* the process exited on its own, no second one after concurrent creates.
C34_RunningSessionHasRunningWorker ==
    NoRequestInFlight =>
        /\ \A d \in Devices : Cardinality(RunningSessions(d)) <= 1
        /\ \A s \in SessionIds :
              sessions[s].status = "running" => WorkerOfSessionRunning(s)

\* C35: stopping session S terminates only the worker that was started for S:
\* while the stop request of S is inside stop(), the worker being stopped is
\* the one bound to S.
C35_StopTerminatesOwnWorkerOnly ==
    (loopj.pc = "stop_session" /\ stopping.pc # "idle") =>
        obj[stopping.w].session_id = loopj.w

(***************************************************************************)
(* Claims about the ingestion pipeline                                     *)
(***************************************************************************)
\* The events of the capture worker in a log, in the order of the log.
WorkerPart(log) == SelectSeq(log, LAMBDA e : e \in WorkerEvents)
Increasing(sq) == \A i, j \in 1..Len(sq) : i < j => sq[i] < sq[j]
RelayEvents == [k \in 1..Len(relay) |-> relay[k].event]

\* C3: the events a device's reader handed over in the order e1..eN are
\* persisted in that order and published in that order.
C3_EventOrderPreserved ==
    /\ Increasing(WorkerPart(store))
    /\ Increasing(WorkerPart(RelayEvents))

InFallback(e) == \E k \in 1..Len(fallback) : fallback[k] = e

\* C4: every event whose persistence failed is in the fallback log, unless the
\* fallback write itself failed, on the /ingest path and on the worker path.
C4_FailedPersistenceGoesToFallback ==
    \A e \in ih.persistFailed : InFallback(e) \/ e \in ih.fallbackFailed

\* The callback of event e was scheduled and has not returned.
CallbackPending(e) ==
    \/ \E k \in 1..Len(ready) : ready[k] = e
    \/ e \in DOMAIN cb /\ cb[e] # "done"

\* C12: the reader never runs the callback and never waits for it: reading and
\* counting the next line is possible whatever the state of the callbacks
\* scheduled before, and the step that hands an event over only queues its
\* callback on the loop; no effect of a callback happens in that step.
C12_ReaderNeverWaitsForCallback ==
    /\ [](handed < MaxEvents => ENABLED HandOver)
    /\ [][handed' # handed =>
            /\ handed' = handed + 1
            /\ ready' = Append(ready, handed')
            /\ UNCHANGED <<cb, store, relay, fallback>>]_vars

\* C12 witness: every line was read and counted while the callback of the
\* first event has not completed.
C12_ReadOnWhileCallbackPending ==
    handed = MaxEvents /\ CallbackPending(1)

InStore(e) == \E k \in 1..Len(store) : store[k] = e

\* C17: every event published to the relay, and every event whose publish is
\* under way, is in the store: its storage append completed with success
\* before; no event whose persistence failed is published.
C17_PublishedOnlyAfterPersisted ==
    /\ \A k \in 1..Len(relay) :
          InStore(relay[k].event) /\ relay[k].event \notin ih.persistFailed
    /\ \A e \in DOMAIN cb : cb[e] = "publishing" => InStore(e)
    /\ req.pc = "publishing" => InStore(CurrentEvent)

\* C17 witness: an event of the worker and an event of the /ingest request
\* were published while the persistence of another event had failed.
C17_PublishedAndFailed ==
    /\ \E k \in 1..Len(relay) : relay[k].event \in WorkerEvents
    /\ \E k \in 1..Len(relay) : relay[k].event \in BatchEvents
    /\ ih.persistFailed \cap WorkerEvents # {}
    /\ ih.persistFailed \cap BatchEvents # {}

\* A publish that failed: the coroutine leaves its publish and the relay got nothing.
BatchPublishFailed == req.pc = "publishing" /\ req' # req /\ relay' = relay
WorkerPublishFailed(e) ==
    e \in DOMAIN cb /\ cb[e] = "publishing" /\ cb'[e] = "done" /\ relay' = relay

\* C18: a failed publish changes neither the store, nor the fallback log, nor
\* the counts of the request; the /ingest request goes on with its next event,
\* or answers after the last one, and the callback of the worker just ends,
\* leaving the callbacks of the other events as they were.
C18_PublishFailureSwallowed ==
    [][/\ BatchPublishFailed =>
             /\ UNCHANGED <<store, fallback, cb, ready, handed>>
             /\ req'.inserted = req.inserted /\ req'.failed = req.failed
             /\ req'.n = req.n
             /\ IF req.i < req.n
                THEN req'.pc = "inserting" /\ req'.i = req.i + 1
                ELSE req'.pc = "answered" /\ req'.i = req.i
       /\ \A e \in WorkerEvents :
             WorkerPublishFailed(e) =>
                /\ UNCHANGED <<store, fallback, req, ready, handed>>
                /\ \A x \in DOMAIN cb \ {e} : cb'[x] = cb[x]]_vars

\* C18 witness: the request was answered with every event inserted although no
\* event of it reached the relay, and a worker event is stored, its callback
\* over, and not in the relay.
C18_AnsweredDespiteFailedPublish ==
    /\ req.pc = "answered" /\ req.n = MaxBatch /\ req.inserted = MaxBatch
    /\ \A k \in 1..Len(relay) : relay[k].event \notin BatchEvents
    /\ \E e \in DOMAIN cb :
          /\ cb[e] = "done" /\ InStore(e)
          /\ \A k \in 1..Len(relay) : relay[k].event # e

\* The fields the specification requires of an event.
SpecRequired == {"emotion", "emotion_confidence", "probabilities"}

\* C19: an event that carries an emotion label, an emotion confidence and a
\* probability mapping is accepted by validation on every path, whatever
\* other fields it lacks.
C19_OnlyThreeFieldsRequired ==
    (vd.pc # "received" /\ \A f \in SpecRequired : vd.payload[f] = "value")
        => vd.pc # "rejected"

\* C20: an event whose timestamp cannot be parsed is inserted with the time
\* of receipt, and the insert fails only when the database does.
C20_UnparseableTimestampStillPersisted ==
    (vd.pc \in {"stored", "failed"} /\ vd.tsform = "garbage")
        => /\ vd.ts = "receipt"
           /\ (vd.db = "ok" => vd.pc = "stored")

\* An event with an unparseable timestamp has been stored under the receipt time.
C20_GarbageTimestampStored ==
    vd.pc = "stored" /\ vd.tsform = "garbage" /\ vd.ts = "receipt"

\* The events of the /ingest request in a log.
BatchPart(log) == SelectSeq(log, LAMBDA e : e \in BatchEvents)

\* C32: a request whose API key is not the configured ingest key is rejected
\* as unauthorized; no event of it is ever persisted, written to the fallback
\* log or published, and it counts nothing.
C32_WrongKeyRejected ==
    (req.pc # "none" /\ req.key # INGEST_API_KEY) =>
        /\ req.pc = "unauthorized"
        /\ BatchPart(store) = <<>>
        /\ BatchPart(fallback) = <<>>
        /\ BatchPart(RelayEvents) = <<>>
        /\ req.inserted = 0 /\ req.failed = 0

\* C32 witness: a request of MaxBatch events with a wrong key was rejected
\* while the events of the capture worker were stored and published.
C32_RejectedWhileWorkerIngests ==
    /\ req.pc = "unauthorized" /\ req.key = "wrong-key" /\ req.n = MaxBatch
    /\ WorkerPart(store) # <<>> /\ WorkerPart(RelayEvents) # <<>>

\* C33: a batch of N events that was served to its end is answered with
\* status ok and inserted + failed = N, where inserted is the number of its
\* events in the store and failed the number of its events in the fallback
\* log; the response carries both counts.
C33_BatchCountsExact ==
    req.pc = "answered" =>
        /\ req.inserted + req.failed = req.n
        /\ req.inserted = Len(BatchPart(store))
        /\ req.failed = Len(BatchPart(fallback))
        /\ IngestResponse(req).status = "ok"
        /\ IngestResponse(req).inserted = req.inserted
        /\ IngestResponse(req).message = IF req.failed = 0 THEN <<>> ELSE <<req.failed>>

\* The part of C33 that does not depend on the fallback write.
C33_CountsAddUp ==
    req.pc = "answered" =>
        /\ req.inserted + req.failed = req.n
        /\ req.inserted = Len(BatchPart(store))
        /\ req.failed = Cardinality(ih.persistFailed \cap BatchEvents)

(***************************************************************************)
(* Claims about the websocket rooms                                        *)
(***************************************************************************)
Count(sq, m) == Cardinality({k \in 1..Len(sq) : sq[k] = m})

\* C5: every message the relay delivers for a room reaches each local
\* subscriber of the room at most once.
C5_AtMostOnceDelivery ==
    \A h \in Handles : \A m \in 1..Len(pubs) : Count(recv[h], m) <= 1

ForwardingTasks(r) ==
    {h \in Handles : conn[h].room = r /\ fwd[h].pc \notin {"none", "ended"}}

\* C6: a room has at most one active forwarding task in every reachable state
\* (a subscribe to a room that has a subscriber starts no second task).
C6_OneForwardingTaskPerRoom ==
    \A r \in Rooms : Cardinality(ForwardingTasks(r)) <= 1

Healthy(h) == conn[h].pc = "open" /\ conn[h].up

\* C7: when a broadcast in which the send to some subscriber A failed has
\* ended, every other subscriber B that was in the room at its start and whose
\* connection is still sound was sent the message and is still subscribed.
C7_BroadcastIsolation ==
    lastBc.failed # {} =>
        \A b \in lastBc.start \ lastBc.failed :
            Healthy(b) => (b \in lastBc.sent /\ b \in Members(lastBc.room))
\* The relay subscriptions this process holds for the channel of room r.
Subscriptions(r) == {h \in Handles : conn[h].room = r /\ fwd[h].sub}

\* C21: once the subscriber set of a room is empty, the forwarding for the
\* room stops and the relay channel is unsubscribed: unless a subscriber
\* arrives, a state follows in which the room has no forwarding task and no
\* relay subscription.
C21_EmptyRoomStopsForwarding ==
    \A r \in Rooms :
        (Members(r) = {}) ~>
            (Members(r) # {} \/ (ForwardingTasks(r) = {} /\ Subscriptions(r) = {}))

\* C22: each subscriber receives the messages of its room in the order the
\* relay delivered them: a message published later is never received before
\* a message published earlier.
C22_PerRoomOrder ==
    \A h \in Handles :
        \A i \in 1..Len(recv[h]) : \A j \in 1..Len(recv[h]) :
            i < j => recv[h][i] <= recv[h][j]

Received(h) == {recv[h][k] : k \in 1..Len(recv[h])}

\* Every send succeeds as long as no client has gone away.
NoClientGone == \A g \in Handles : conn[g].pc = "idle" \/ Healthy(g)

\* The relay has delivered message m to the subscription the process holds
\* for the connection of h.
RelayDelivered(h, m) ==
    \/ fwd[h].msg = m
    \/ \E k \in 1..Len(fwd[h].inbox) : fwd[h].inbox[k] = m

\* C23: a message published for a room, by whichever process, is forwarded
\* through the relay to the subscribers of the room as long as the sends
\* succeed, and no subscriber ever receives a message of another room.
C23_ForwardedToRoomOnly ==
    /\ [](\A h \in Handles : \A m \in Received(h) : pubs[m] = conn[h].room)
    /\ \A h \in Handles : \A m \in 1..MaxMsgs :
          (RelayDelivered(h, m) /\ NoClientGone)
              ~> (m \in Received(h) \/ ~NoClientGone)

\* The half of C23 about other rooms.
C23_NeverToAnotherRoom ==
    \A h \in Handles : \A m \in Received(h) : pubs[m] = conn[h].room

\* C24: no replay and no backlog: a subscriber never receives a message that
\* was published before it subscribed.
C24_NoReplay ==
    \A h \in Handles : \A m \in Received(h) : m > conn[h].since

\* C36: a subscriber that joins or leaves a room while a broadcast to the room
\* is suspended on a send neither aborts the broadcast nor ends the
\* forwarding: when a broadcast has ended, every subscriber that was in the
\* room at its start and is still there with a sound connection was sent the
\* message; and a room with such a subscriber always has a forwarding task.
C36_MembershipChangeKeepsBroadcast ==
    /\ \A b \in lastBc.start :
          (Healthy(b) /\ b \in Members(lastBc.room)) => b \in lastBc.sent
    /\ \A r \in Rooms :
          (\E h \in Members(r) : Healthy(h)) => ForwardingTasks(r) # {}

\* C37: the registry never holds an empty room, and disconnecting a handle
\* that is not in a room leaves the registry as it is.
C37_NoEmptyRoom ==
    /\ \A r \in DOMAIN active : active[r] # {}
    /\ \A h \in Handles : \A r \in Rooms :
          h \notin Members(r) => Disconnect(active, h, r) = active

\* C37 witness: a broadcast removed a subscriber whose send had failed, the
\* handler of that subscriber has disconnected it as well, its room is gone
\* from the registry and the other room is still there.
C37_FailedSubscriberRemoved ==
    \E h \in Handles :
        /\ conn[h].pc = "closed" /\ h \in lastBc.failed /\ ~lastBc.aborted
        /\ lastBc.room \notin DOMAIN active
        /\ DOMAIN active # {}

(***************************************************************************)
(* Claims about the metrics engine                                         *)
(***************************************************************************)
DerivedMetrics ==
    {"attentiveness", "positivity", "engagement", "boredom", "frustration",
     "volatility", "distraction", "fatigue", "risk"}

\* compute() has returned metrics (the engine had samples).
HasMetrics == DOMAIN metrics # {}

\* C27: whatever samples were pushed, each of the nine derived metrics that
\* compute returns lies in [0,1].
C27_MetricsInUnitInterval ==
    HasMetrics =>
        /\ DOMAIN metrics = DerivedMetrics
        /\ \A k \in DerivedMetrics : metrics[k] >= 0 /\ metrics[k] <= 1000

\* Metrics were returned for a window whose latest sample has a negative raw
\* attentiveness, after more than one push.
C27_ClippedMetricsReturned ==
    /\ HasMetrics /\ mh.op = "compute" /\ mh.pushes > 1
    /\ metrics_engine.buf[Len(metrics_engine.buf)].top = "Angry"
    /\ metrics.attentiveness = 0

\* All of a sequence but its last element.
Front(q) == SubSeq(q, 1, Len(q) - 1)

\* Window after is window before with one sample appended under FIFO
\* eviction at capacity cap: the new sample is the last, and the samples
\* before it are the old ones, without the oldest if the window was full.
FifoAppended(before, after, cap, ts) ==
    /\ after # <<>> /\ after[Len(after)].ts = ts
    /\ Front(after) = IF Len(before) = cap THEN Tail(before) ELSE before

PushStep == mh'.pushes = mh.pushes + 1

\* C28: the short window never holds more than 30 samples and the long
\* window never more than 300; a push to a full window evicts exactly the
\* oldest sample and keeps the others in arrival order.
C28_WindowsFifoBounded ==
    /\ [](Len(metrics_engine.buf) <= short_w /\ Len(metrics_engine.long_buf) <= long_w)
    /\ [][PushStep =>
            /\ FifoAppended(metrics_engine.buf, metrics_engine'.buf, short_w, mh'.pushes)
            /\ FifoAppended(metrics_engine.long_buf, metrics_engine'.long_buf, long_w,
                            mh'.pushes)]_vars

\* More samples were pushed than the long window holds: both windows are full
\* and begin with the oldest sample not yet evicted.
C28_BothWindowsOverflowed ==
    /\ mh.pushes > long_w
    /\ Len(metrics_engine.long_buf) = long_w
    /\ metrics_engine.long_buf[1].ts = mh.pushes - long_w + 1
    /\ Len(metrics_engine.buf) = short_w
    /\ metrics_engine.buf[1].ts = mh.pushes - short_w + 1

\* C29: compute uses the long-window risk formula if and only if the long
\* window holds more than 10 samples; with 10 or fewer it uses the formula
\* over boredom, frustration and volatility of the short window.
C29_RiskBranchAtTenSamples ==
    (HasMetrics /\ mh.op = "compute") =>
        metrics.risk = IF Len(metrics_engine.long_buf) > 10
                       THEN RiskLong(metrics_engine)
                       ELSE RiskShort(metrics_engine)

\* compute ran with exactly 10 samples in the long window, where the two
\* formulas give different values, and returned the short-window risk.
C29_ShortRiskAtTenSamples ==
    /\ HasMetrics /\ mh.op = "compute"
    /\ Len(metrics_engine.long_buf) = 10
    /\ RiskLong(metrics_engine) # RiskShort(metrics_engine)
    /\ metrics.risk = RiskShort(metrics_engine)

\* compute ran with 11 samples in the long window, where the two formulas
\* give different values, and returned the long-window risk.
C29_LongRiskAtElevenSamples ==
    /\ HasMetrics /\ mh.op = "compute"
    /\ Len(metrics_engine.long_buf) = 11
    /\ RiskLong(metrics_engine) # RiskShort(metrics_engine)
    /\ metrics.risk = RiskLong(metrics_engine)

ComputeStep == mh'.computes = mh.computes + 1

\* C30: the first compute with samples sets the engagement average to the
\* raw engagement; every later one sets it to 0.8 * previous + 0.2 * raw; the
\* engagement returned is the average clamped to [0,1].
C30_EngagementEma ==
    [][(ComputeStep /\ metrics_engine.buf # <<>>) =>
        LET raw == EngRaw(metrics_engine.buf[Len(metrics_engine.buf)].probs)
            old == metrics_engine.eng_ema
            new == metrics_engine'.eng_ema
        IN /\ new # <<>>
           /\ old = <<>> => new[1] = raw
           /\ old # <<>> => new[1] = (800 * old[1] + 200 * raw) \div 1000
           /\ metrics'.engagement =
                 IF new[1] < 0 THEN 0 ELSE IF new[1] > 1000 THEN 1000 ELSE new[1]]_vars

\* A second compute has smoothed a raw engagement that differs from the
\* average before it: the average lies strictly between the two.
C30_SecondComputeSmoothed ==
    /\ mh.computes = 2 /\ mh.op = "compute" /\ HasMetrics
    /\ LET raw == EngRaw(metrics_engine.buf[Len(metrics_engine.buf)].probs)
       IN metrics_engine.eng_ema[1] > 0 /\ metrics_engine.eng_ema[1] < raw

\* The engagement values compute has returned, in the order of the calls.
Engagements == [k \in 1..Len(mh.eng) |-> mh.eng[k].value]

\* C31: over five frames of a steady Happy face (a push of P(Happy) = 0.8 with
\* the box unmoved, then a compute), the engagement returned trends upward: it
\* never falls from one result to the next and the fifth is above the first.
C31_SteadyHappyEngagementRises ==
    (mh.plan = "frames" /\ Len(mh.eng) >= 5) =>
        /\ \A k \in 1..4 : Engagements[k] <= Engagements[k + 1]
        /\ Engagements[1] < Engagements[5]

\* C38: compute changes nothing of the engine but the engagement average:
\* both windows, the velocity buffer and the stored centroid are as before,
\* and a compute on an engine without samples changes nothing at all and
\* returns no metrics.
C38_ComputeChangesOnlyEma ==
    [][ComputeStep =>
        /\ metrics_engine'.buf = metrics_engine.buf
        /\ metrics_engine'.long_buf = metrics_engine.long_buf
        /\ metrics_engine'.center_vel = metrics_engine.center_vel
        /\ metrics_engine'.prev_center = metrics_engine.prev_center
        /\ metrics_engine.buf = <<>> =>
              (metrics_engine' = metrics_engine /\ DOMAIN metrics' = {})]_vars

\* C38 witness: two computes with no push in between returned different
\* engagement values.
C38_RepeatedComputeDiffers ==
    \E k \in 2..Len(mh.eng) :
        mh.eng[k].again /\ mh.eng[k].value # mh.eng[k - 1].value

Min(a, b) == IF a <= b THEN a ELSE b

\* C39: the velocity buffer holds as many entries as the short window holds
\* samples; a push appends 0 for a sample without a box and for the first
\* sample, and a push without a box leaves the stored centroid as it was.
C39_OneVelocityPerSample ==
    /\ [](Len(metrics_engine.center_vel) = Len(metrics_engine.buf))
    /\ [][PushStep =>
            LET e == metrics_engine'
                box == e.buf[Len(e.buf)].box
            IN /\ (box = <<>> \/ mh.pushes = 0) => e.center_vel[Len(e.center_vel)] = 0
               /\ box = <<>> => e.prev_center = metrics_engine.prev_center]_vars

\* C39 witness: a sample with a box was followed by one without: two velocity
\* entries, both 0, and the centroid is still that of the first box.
C39_BoxlessAfterBoxed ==
    /\ Len(metrics_engine.buf) = 2
    /\ metrics_engine.buf[1].box # <<>> /\ metrics_engine.buf[2].box = <<>>
    /\ metrics_engine.center_vel = <<0, 0>>
    /\ metrics_engine.prev_center = Centre(metrics_engine.buf[1].box)

\* C40: after n pushes the short window is the most recent min(30, n) samples
\* of the long window, in the same order.
C40_ShortWindowIsTailOfLong ==
    LET b == metrics_engine.buf
        l == metrics_engine.long_buf
    IN /\ Len(b) = Min(short_w, mh.pushes)
       /\ Len(l) = Min(long_w, mh.pushes)
       /\ b = SubSeq(l, Len(l) - Len(b) + 1, Len(l))

\* C40 witness: the short window has evicted samples the long window still
\* holds, and begins where the last 30 samples of the long window begin.
C40_ShortWindowEvictedFirst ==
    /\ mh.pushes > short_w /\ mh.pushes < long_w
    /\ Len(metrics_engine.long_buf) > Len(metrics_engine.buf)
    /\ metrics_engine.buf[1] = metrics_engine.long_buf[mh.pushes - short_w + 1]
====
